---- MODULE Spec2Model ----
(***************************************************************************)
(* Model of the mdize PDF layout core: detectTables (table-detector.ts),   *)
(* mergeMasterFormatNumbering, buildPageHtml and PdfConverter.convert; and *)
(* of the converter registry, Mdize.convertBuffer (mdize.ts).              *)
(*                                                                         *)
(* Numbers.  Page coordinates are integers.  Every threshold the code      *)
(* derives by a decimal factor (x1.2, x0.6, x1.5, x0.25, x0.5, x0.8) is    *)
(* kept in hundredths of a page unit (suffix H), so that the arithmetic is *)
(* exact; comparisons multiply the integer side by 100.                    *)
(* Strings are sequences of one-character strings.                         *)
(***************************************************************************)
EXTENDS Integers, Sequences, FiniteSets, TLC

VARIABLES
    words,          \* detectTables: the words argument (PositionedWord[])
    opts,           \* detectTables: the options argument
    pc,             \* position inside detectTables
    rows,           \* detectTables: rows (RowInfo[])
    thr,            \* detectTables: columnGap, globalColumnGap, alignTolerance
    globalColumns,  \* detectTables: globalColumns
    output,         \* detectTables: output (string[])
    result,         \* detectTables: the returned value
    mmText,         \* mergeMasterFormatNumbering: the text argument
    mmResult,       \* mergeMasterFormatNumbering: the returned string
    layPc,          \* position inside buildPageHtml
    pageItems,      \* buildPageHtml: the text items of the page
    pageLines,      \* buildPageHtml: lines (LineInfo[])
    bodySize,       \* buildPageHtml: bodySize, in half points
    classified,     \* buildPageHtml: classified (ClassifiedLine[])
    html,           \* buildPageHtml: the returned string
    pdfPc,          \* position inside PdfConverter.convert
    doc,            \* PdfConverter.convert: the pages of the document
    pageNum,        \* PdfConverter.convert: pageNum
    tableResult,    \* PdfConverter.convert: tableResult of the current page
    pageHtml,       \* PdfConverter.convert: html of the current page
    chunks,         \* PdfConverter.convert: chunks
    calls,          \* PdfConverter.convert: the calls made so far, in order
    markdown,       \* PdfConverter.convert: the returned markdown
    registrations,  \* Mdize: this.registrations
    disPc,          \* position inside Mdize.convertBuffer
    input,          \* convertBuffer: the buffer, by what the converters do with it
    sortedRegs,     \* convertBuffer: sorted
    pos,            \* convertBuffer: index of the next entry of sorted
    attempts,       \* convertBuffer: attempts
    invoked,        \* convertBuffer: the converters whose convert was called, in order
    outcome         \* convertBuffer: the result returned or the error thrown

detVars == <<words, opts, pc, rows, thr, globalColumns, output, result>>

numVars == <<mmText, mmResult>>

layVars == <<layPc, pageItems, pageLines, bodySize, classified, html>>

pdfVars == <<pdfPc, doc, pageNum, tableResult, pageHtml, chunks, calls, markdown>>

disVars == <<registrations, disPc, input, sortedRegs, pos, attempts, invoked, outcome>>

vars == <<detVars, numVars, layVars, pdfVars, disVars>>

----------------------------------------------------------------------------
(* Generic helpers                                                         *)

Max(a, b) == IF a >= b THEN a ELSE b

Min(a, b) == IF a <= b THEN a ELSE b

Abs(a) == IF a < 0 THEN -a ELSE a

\* Math.ceil(n * num / den) for n, num >= 0, den > 0
CeilDiv(n, d) == (n + d - 1) \div d

\* Math.round(a / b): nearest integer, halves rounded up (b > 0)
JSRound(a, b) == (2 * a + b) \div (2 * b)

\* the concatenation of ss[lo], ..., ss[hi]
RECURSIVE FlattenRange(_, _, _)
FlattenRange(ss, lo, hi) ==
    IF lo > hi THEN <<>>
    ELSE IF lo = hi THEN ss[lo]
    ELSE LET mid == (lo + hi) \div 2
         IN  FlattenRange(ss, lo, mid) \o FlattenRange(ss, mid + 1, hi)

Flatten(ss) == FlattenRange(ss, 1, Len(ss))

\* Array.prototype.join
RECURSIVE JoinUpTo(_, _, _)
JoinUpTo(ss, sep, n) ==
    IF n = 0 THEN <<>>
    ELSE IF n = 1 THEN ss[1]
    ELSE JoinUpTo(ss, sep, n - 1) \o sep \o ss[n]

Join(ss, sep) == JoinUpTo(ss, sep, Len(ss))

\* [...xs].sort((a, b) => a - b)
RECURSIVE SortNum(_)
SortNum(xs) ==
    IF xs = <<>> THEN <<>>
    ELSE LET init == SortNum(SubSeq(xs, 1, Len(xs) - 1))
             e    == xs[Len(xs)]
             k    == Cardinality({i \in 1..Len(init) : init[i] <= e})
         IN  SubSeq(init, 1, k) \o <<e>> \o SubSeq(init, k + 1, Len(init))

\* ws.sort((a, b) => a.x0 - b.x0): stable, words of equal x0 keep their order
RECURSIVE SortByX0(_)
SortByX0(ws) ==
    IF ws = <<>> THEN <<>>
    ELSE LET init == SortByX0(SubSeq(ws, 1, Len(ws) - 1))
             e    == ws[Len(ws)]
             k    == Cardinality({i \in 1..Len(init) : init[i].x0 <= e.x0})
         IN  SubSeq(init, 1, k) \o <<e>> \o SubSeq(init, k + 1, Len(init))

----------------------------------------------------------------------------
(* Strings                                                                 *)

Digits == {"0", "1", "2", "3", "4", "5", "6", "7", "8", "9"}

WhiteSpace == {" ", "\n", "\t", "\r"}

SP == <<" ">>

NL == <<"\n">>

\* String.prototype.trim
RECURSIVE TrimLeft(_)
TrimLeft(s) ==
    IF s # <<>> /\ Head(s) \in WhiteSpace THEN TrimLeft(Tail(s)) ELSE s

RECURSIVE TrimRight(_)
TrimRight(s) ==
    IF s # <<>> /\ s[Len(s)] \in WhiteSpace
    THEN TrimRight(SubSeq(s, 1, Len(s) - 1)) ELSE s

Trim(s) == TrimRight(TrimLeft(s))

\* PARTIAL_NUMBERING = /^\.\d+$/ (.test)
PARTIAL_NUMBERING(s) ==
    /\ Len(s) >= 2
    /\ s[1] = "."
    /\ \A i \in 2..Len(s) : s[i] \in Digits

\* String.prototype.split("\n")
RECURSIVE SplitLines(_)
SplitLines(s) ==
    LET nl == {i \in 1..Len(s) : s[i] = "\n"}
    IN  IF nl = {} THEN <<s>>
        ELSE LET i == CHOOSE j \in nl : \A k \in nl : j <= k
             IN  <<SubSeq(s, 1, i - 1)>> \o SplitLines(SubSeq(s, i + 1, Len(s)))

----------------------------------------------------------------------------
(* detectTables: options                                                   *)

\* an option the caller left out (undefined)
Undefined == -1

\* the destructuring defaults of detectTables
Resolve(o) ==
    [o EXCEPT
        !.yTolerance      = IF @ = Undefined THEN 5 ELSE @,
        !.minTableDensity = IF @ = Undefined THEN 20 ELSE @,
        !.maxColumns      = IF @ = Undefined THEN 30 ELSE @]

----------------------------------------------------------------------------
(* detectTables, step 1: rows by Y position, inter-word gaps, thresholds   *)

\* mutant of RowKey: the quotient is rounded down
RowKeyFloor(w, yTol) == (w.top \div yTol) * yTol

\* Math.round(w.top / yTolerance) * yTolerance
RowKey(w, yTol) == JSRound(w.top, yTol) * yTol

\* [...rowsByY.keys()].sort((a, b) => a - b)
RECURSIVE SetToSortedSeq(_)
SetToSortedSeq(S) ==
    IF S = {} THEN <<>>
    ELSE LET m == CHOOSE x \in S : \A y \in S : x <= y
         IN  <<m>> \o SetToSortedSeq(S \ {m})

SortedKeys(ws, yTol) ==
    SetToSortedSeq({RowKey(ws[i], yTol) : i \in 1..Len(ws)})

\* mutant of RowWords: the words of a row are left in the order they came in
RowWordsUnsorted(ws, yKey, yTol) ==
    LET InRow(w) == RowKey(w, yTol) = yKey
    IN  SelectSeq(ws, InRow)

\* rowsByY.get(yKey).sort((a, b) => a.x0 - b.x0)
RowWords(ws, yKey, yTol) ==
    LET InRow(w) == RowKey(w, yTol) = yKey
    IN  SortByX0(SelectSeq(ws, InRow))

\* the positive gaps rw[i].x0 - rw[i-1].x1 of one row, in order
PositiveGaps(rw) ==
    LET Gap(i) == rw[i + 1].x0 - rw[i].x1
        idx == SetToSortedSeq({i \in 1..(Len(rw) - 1) : Gap(i) > 0})
    IN  [k \in 1..Len(idx) |-> Gap(idx[k])]

AllGaps(ws, yTol) ==
    LET keys == SortedKeys(ws, yTol)
    IN  Flatten([k \in 1..Len(keys) |-> PositiveGaps(RowWords(ws, keys[k], yTol))])

\* mutant of Thresholds: the minimum of 8 for columnGap is missing
ThresholdsNoFloor(o, allGaps) ==
    IF Len(allGaps) > 0 THEN
        LET columnGap == SortNum(allGaps)[((Len(allGaps) * 65) \div 100) + 1] * 120
        IN  [columnGap       |-> columnGap,
             globalColumnGap |-> Max((columnGap * 6) \div 10, 600),
             alignTolerance  |-> Max((columnGap * 15) \div 10, 1500)]
    ELSE [columnGap |-> 5000, globalColumnGap |-> 3000, alignTolerance |-> 4000]

\* columnGap, globalColumnGap, alignTolerance, in hundredths
Thresholds(o, allGaps) ==
    IF o.columnGap # Undefined THEN
        [columnGap       |-> o.columnGap * 100,
         globalColumnGap |-> IF o.globalColumnGap # Undefined
                             THEN o.globalColumnGap * 100
                             ELSE Max(o.columnGap * 60, 800),
         alignTolerance  |-> IF o.alignTolerance # Undefined
                             THEN o.alignTolerance * 100
                             ELSE o.columnGap * 80]
    ELSE IF Len(allGaps) > 0 THEN
        LET sorted    == SortNum(allGaps)
            p65       == sorted[((Len(allGaps) * 65) \div 100) + 1]
            columnGap == Max(p65 * 120, 800)
        IN  [columnGap       |-> columnGap,
             globalColumnGap |-> IF o.globalColumnGap # Undefined
                                 THEN o.globalColumnGap * 100
                                 ELSE Max((columnGap * 6) \div 10, 600),
             alignTolerance  |-> IF o.alignTolerance # Undefined
                                 THEN o.alignTolerance * 100
                                 ELSE Max((columnGap * 15) \div 10, 1500)]
    ELSE
        [columnGap       |-> 5000,
         globalColumnGap |-> IF o.globalColumnGap # Undefined
                             THEN o.globalColumnGap * 100 ELSE 3000,
         alignTolerance  |-> IF o.alignTolerance # Undefined
                             THEN o.alignTolerance * 100 ELSE 4000]

----------------------------------------------------------------------------
(* detectTables, step 2: RowInfo                                           *)

\* mutant of ClusterPositions: every position is kept, none merged
ClusterPositionsAll(positions, gapH) == SortNum(positions)

\* mutant of ClusterPositions: the middle member of each cluster is returned
ClusterPositionsMedian(positions, gapH) ==
    IF positions = <<>> THEN <<>>
    ELSE LET sorted == SortNum(positions)
             starts == {1} \cup {i \in 2..Len(sorted) :
                                   (sorted[i] - sorted[i - 1]) * 100 > gapH}
             idx    == SetToSortedSeq(starts)
             GEnd(k) == IF k = Len(idx) THEN Len(sorted) ELSE idx[k + 1] - 1
         IN  [k \in 1..Len(idx) |-> sorted[idx[k] + ((GEnd(k) - idx[k] + 1) \div 2)]]

\* clusterPositions(positions, gap); gapH is the gap in hundredths
ClusterPositions(positions, gapH) ==
    IF positions = <<>> THEN <<>>
    ELSE LET sorted == SortNum(positions)
             starts == {1} \cup {i \in 2..Len(sorted) :
                                   (sorted[i] - sorted[i - 1]) * 100 > gapH}
             idx    == SetToSortedSeq(starts)
         IN  [k \in 1..Len(idx) |-> sorted[idx[k]]]

SeqMax(xs) == CHOOSE m \in {xs[i] : i \in 1..Len(xs)} :
                  \A i \in 1..Len(xs) : xs[i] <= m

SeqMin(xs) == CHOOSE m \in {xs[i] : i \in 1..Len(xs)} :
                  \A i \in 1..Len(xs) : m <= xs[i]

BuildRowInfo(rowWords, yKey, columnGapH, pageWidth) ==
    LET text      == Join([i \in 1..Len(rowWords) |-> rowWords[i].text], SP)
        lineWidth == IF Len(rowWords) > 0
                     THEN rowWords[Len(rowWords)].x1 - rowWords[1].x0
                     ELSE 0
        xGroups   == ClusterPositions([i \in 1..Len(rowWords) |-> rowWords[i].x0],
                                      columnGapH)
        rowGaps   == PositiveGaps(rowWords)
        gapRange  == IF Len(rowGaps) > 1
                     THEN SeqMax(rowGaps) - SeqMin(rowGaps)
                     ELSE 0
        uniformGapThreshold == Max((columnGapH * 25) \div 100, 1000)
    IN  [yKey        |-> yKey,
         words       |-> rowWords,
         text        |-> text,
         lineWidth   |-> lineWidth,
         xGroups     |-> xGroups,
         isParagraph |-> /\ lineWidth * 100 > pageWidth * 55
                         /\ Len(text) > 60
                         /\ (Len(rowWords) <= 2
                             \/ gapRange * 100 < uniformGapThreshold),
         hasPartialNumbering |-> /\ Len(rowWords) > 0
                                 /\ PARTIAL_NUMBERING(rowWords[1].text),
         numColumns  |-> Len(xGroups),
         isTableRow  |-> FALSE,
         alignedCount |-> 0]

BuildRows(ws, o, columnGapH) ==
    LET keys == SortedKeys(ws, o.yTolerance)
    IN  [k \in 1..Len(keys) |->
            BuildRowInfo(RowWords(ws, keys[k], o.yTolerance), keys[k],
                         columnGapH, o.pageWidth)]

----------------------------------------------------------------------------
(* detectTables, step 3: global column structure                           *)

IsSeedRow(row) == row.numColumns >= 3 /\ ~row.isParagraph

\* mutant of AllX0s: the filter on table-candidate rows is forgotten
AllX0sAnyRow(rs) ==
    Flatten([k \in 1..Len(rs) |->
        [i \in 1..Len(rs[k].words) |-> rs[k].words[i].x0]])

\* allX0s: the x0 of every word of every table-candidate row
AllX0s(rs) ==
    Flatten([k \in 1..Len(rs) |->
        IF IsSeedRow(rs[k])
        THEN [i \in 1..Len(rs[k].words) |-> rs[k].words[i].x0]
        ELSE <<>>])

ContributingRowCount(rs) == Cardinality({k \in 1..Len(rs) : IsSeedRow(rs[k])})

\* findFrequentPositions(positions, tolerance, minCount)
FindFrequentPositions(positions, tolerance, minCount) ==
    IF positions = <<>> THEN <<>>
    ELSE LET sorted == SortNum(positions)
             starts == {1} \cup {i \in 2..Len(sorted) :
                                   sorted[i] - sorted[i - 1] > tolerance}
             idx    == SetToSortedSeq(starts)
             GEnd(k) == IF k = Len(idx) THEN Len(sorted) ELSE idx[k + 1] - 1
             GLen(k) == GEnd(k) - idx[k] + 1
             keep   == SetToSortedSeq({k \in 1..Len(idx) : GLen(k) >= minCount})
         IN  [j \in 1..Len(keep) |->
                 sorted[idx[keep[j]] + (GLen(keep[j]) \div 2)]]

\* if (allX0s.length === 0) return null
NoCandidateRows(rs) == Len(AllX0s(rs)) = 0

FrequentPositions(rs, o) ==
    LET positionTolerance == Max(o.yTolerance, 5)
        minFrequency == Max(CeilDiv(ContributingRowCount(rs) * 3, 10), 2)
    IN  FindFrequentPositions(AllX0s(rs), positionTolerance, minFrequency)

\* if (frequentPositions.length === 0) return null
NoFrequentPositions(fp) == Len(fp) = 0

\* mutant of TooManyColumns: off by one
TooManyColumnsOffByOne(gc, maxColumns) == Len(gc) > maxColumns + 1

\* if (globalColumns.length > maxColumns) return null
TooManyColumns(gc, maxColumns) == Len(gc) > maxColumns

----------------------------------------------------------------------------
(* detectTables, step 4 and 4b: table rows                                 *)

\* mutant of MinAligned: two aligned words are enough for any column count
MinAlignedTwo(gc) == 2

\* Math.max(2, Math.ceil(globalColumns.length * 0.25))
MinAligned(gc) == Max(2, CeilDiv(Len(gc), 4))

AlignedCount(row, gc, alignToleranceH) ==
    Cardinality({i \in 1..Len(row.words) :
        \E c \in 1..Len(gc) :
            Abs(row.words[i].x0 - gc[c]) * 100 < alignToleranceH})

\* mutant of ClassifyRow: paragraph rows are classified like any other row
ClassifyRowParagraph(row, gc, alignToleranceH) ==
    IF row.hasPartialNumbering THEN row
    ELSE LET alignedCount == AlignedCount(row, gc, alignToleranceH)
         IN  [row EXCEPT !.alignedCount = alignedCount,
                         !.isTableRow = (alignedCount >= MinAligned(gc))]

\* mutant of ClassifyRow: numbering rows are classified like any other row
ClassifyRowNumbering(row, gc, alignToleranceH) ==
    IF row.isParagraph THEN row
    ELSE LET alignedCount == AlignedCount(row, gc, alignToleranceH)
         IN  [row EXCEPT !.alignedCount = alignedCount,
                         !.isTableRow = (alignedCount >= MinAligned(gc))]

ClassifyRow(row, gc, alignToleranceH) ==
    IF row.isParagraph \/ row.hasPartialNumbering THEN row
    ELSE LET alignedCount == AlignedCount(row, gc, alignToleranceH)
         IN  [row EXCEPT !.alignedCount = alignedCount,
                         !.isTableRow = (alignedCount >= MinAligned(gc))]

\* one iteration (row idx) of the gap-filling loop, on the rows as they are
FillGapAt(rs, idx) ==
    LET row    == rs[idx]
        maxGap == 3
        before == {j \in Max(1, idx - maxGap)..(idx - 1) :
                      rs[j].isTableRow \/ rs[j].isParagraph}
        after  == {j \in (idx + 1)..Min(Len(rs), idx + maxGap) :
                      rs[j].isTableRow \/ rs[j].isParagraph}
        tableBefore == /\ before # {}
                       /\ rs[CHOOSE j \in before : \A k \in before : k <= j].isTableRow
        tableAfter  == /\ after # {}
                       /\ rs[CHOOSE j \in after : \A k \in after : j <= k].isTableRow
    IN  IF row.isTableRow \/ row.isParagraph \/ row.alignedCount < 2 THEN rs
        ELSE IF tableBefore /\ tableAfter
             THEN [rs EXCEPT ![idx].isTableRow = TRUE]
             ELSE rs

RECURSIVE FillGapsFrom(_, _)
FillGapsFrom(rs, idx) ==
    IF idx > Len(rs) THEN rs ELSE FillGapsFrom(FillGapAt(rs, idx), idx + 1)

ClassifyRows(rs, gc, alignToleranceH) ==
    LET step4 == [k \in 1..Len(rs) |-> ClassifyRow(rs[k], gc, alignToleranceH)]
    IN  IF MinAligned(gc) > 2 THEN FillGapsFrom(step4, 1) ELSE step4

----------------------------------------------------------------------------
(* detectTables, step 5: table density                                     *)

TableRowCount(rs) == Cardinality({k \in 1..Len(rs) : rs[k].isTableRow})

\* mutant of DensityRejected: paragraph rows are left out of totalRows
DensityRejectedNoParagraphs(rs, minTableDensity) ==
    TableRowCount(rs) * 100
        < minTableDensity * Cardinality({k \in 1..Len(rs) : ~rs[k].isParagraph})

\* tableRowCount / totalRows < minTableDensity (minTableDensity in hundredths)
DensityRejected(rs, minTableDensity) ==
    TableRowCount(rs) * 100 < minTableDensity * Len(rs)

----------------------------------------------------------------------------
(* detectTables, step 6: table regions and output                          *)

\* mutant of ColBuffer: a column's range starts at its position
ColBufferNone(globalColumnGapH) == 0

\* Math.max(globalColumnGap * 0.5, 4), in hundredths
ColBuffer(globalColumnGapH) == Max(globalColumnGapH \div 2, 400)

\* the column a word is assigned to (1-based)
AssignedCol(word, gc, colBufferH) ==
    LET numCols == Len(gc)
        fits == {c \in 1..(numCols - 1) : word.x0 * 100 < gc[c + 1] * 100 - colBufferH}
    IN  IF fits = {} THEN numCols
        ELSE CHOOSE c \in fits : \A d \in fits : c <= d

\* mutant of AppendCell: the new text is put in front
AppendCellFront(cell, text) == IF cell # <<>> THEN text \o SP \o cell ELSE text

\* cell ? `${cell} ${text}` : text
AppendCell(cell, text) == IF cell # <<>> THEN cell \o SP \o text ELSE text

RECURSIVE FillCells(_, _, _, _)
FillCells(cells, ws, gc, colBufferH) ==
    IF ws = <<>> THEN cells
    ELSE LET c == AssignedCol(Head(ws), gc, colBufferH)
         IN  FillCells([cells EXCEPT ![c] = AppendCell(@, Head(ws).text)],
                       Tail(ws), gc, colBufferH)

\* the cells of one physical table row
RowCells(row, gc, colBufferH) ==
    FillCells([c \in 1..Len(gc) |-> <<>>], row.words, gc, colBufferH)

Filled(cells) == Cardinality({c \in 1..Len(cells) : cells[c] # <<>>})

\* mutant of MergeFrom: a row that fills half as many cells is merged too
RECURSIVE MergeFromHalf(_, _, _, _)
MergeFromHalf(mdRows, i, res, buffer) ==
    IF i > Len(mdRows) THEN Append(res, buffer)
    ELSE LET row == mdRows[i]
             bufferFilled == Filled(buffer)
             newFilled    == Filled(row)
             overlapCount == Cardinality({c \in 1..Len(row) :
                                 row[c] # <<>> /\ buffer[c] # <<>>})
         IN  IF overlapCount = 0 \/ 2 * newFilled <= bufferFilled
             THEN MergeFromHalf(mdRows, i + 1, res,
                      [c \in 1..Len(buffer) |->
                          IF c <= Len(row) /\ row[c] # <<>>
                          THEN AppendCell(buffer[c], row[c])
                          ELSE buffer[c]])
             ELSE MergeFromHalf(mdRows, i + 1, Append(res, buffer), row)

\* mergeLogicalRows: state [result, buffer] after the rows from index i on
RECURSIVE MergeFrom(_, _, _, _)
MergeFrom(mdRows, i, res, buffer) ==
    IF i > Len(mdRows) THEN Append(res, buffer)
    ELSE LET row == mdRows[i]
             bufferFilled == Filled(buffer)
             newFilled    == Filled(row)
             overlapCount == Cardinality({c \in 1..Len(row) :
                                 row[c] # <<>> /\ buffer[c] # <<>>})
         IN  IF overlapCount = 0 \/ 2 * newFilled < bufferFilled
             THEN MergeFrom(mdRows, i + 1, res,
                      [c \in 1..Len(buffer) |->
                          IF c <= Len(row) /\ row[c] # <<>>
                          THEN AppendCell(buffer[c], row[c])
                          ELSE buffer[c]])
             ELSE MergeFrom(mdRows, i + 1, Append(res, buffer), row)

\* mutant of MergeLogicalRows: a merged row's cells are pushed onto the buffer
RECURSIVE MergeFromPush(_, _, _, _)
MergeFromPush(mdRows, i, res, buffer) ==
    IF i > Len(mdRows) THEN Append(res, buffer)
    ELSE LET row == mdRows[i]
             overlapCount == Cardinality({c \in 1..Len(row) :
                                 row[c] # <<>> /\ buffer[c] # <<>>})
         IN  IF overlapCount = 0 \/ 2 * Filled(row) < Filled(buffer)
             THEN MergeFromPush(mdRows, i + 1, res,
                                buffer \o SelectSeq(row, LAMBDA c : c # <<>>))
             ELSE MergeFromPush(mdRows, i + 1, Append(res, buffer), row)

MergeLogicalRowsPush(mdRows) ==
    IF mdRows = <<>> THEN <<>> ELSE MergeFromPush(mdRows, 2, <<>>, mdRows[1])

MergeLogicalRows(mdRows) ==
    IF mdRows = <<>> THEN <<>> ELSE MergeFrom(mdRows, 2, <<>>, mdRows[1])

\* "| " + cells.join(" | ") + " |"
PipeLine(cells) == <<"|", " ">> \o Join(cells, <<" ", "|", " ">>) \o <<" ", "|">>

Dashes == <<"-", "-", "-">>

\* mutant of RegionLines: no separator under a header that has no data rows
RegionLinesBareHeader(merged) ==
    IF Len(merged) > 1
    THEN <<PipeLine(merged[1])>>
         \o <<PipeLine([c \in 1..Len(merged[1]) |-> Dashes])>>
         \o [r \in 1..(Len(merged) - 1) |-> PipeLine(merged[r + 1])]
    ELSE IF Len(merged) = 1 THEN <<PipeLine(merged[1])>>
    ELSE <<>>

\* the lines pushed for one merged table region
RegionLines(merged) ==
    IF Len(merged) > 0
    THEN <<PipeLine(merged[1])>>
         \o <<PipeLine([c \in 1..Len(merged[1]) |-> Dashes])>>
         \o [r \in 1..(Len(merged) - 1) |-> PipeLine(merged[r + 1])]
    ELSE <<>>

\* index one past the run of table rows that starts at i
RECURSIVE RegionEnd(_, _)
RegionEnd(rs, i) ==
    IF i <= Len(rs) /\ rs[i].isTableRow THEN RegionEnd(rs, i + 1) ELSE i

\* mutant of RegionGrid: the last row of the region is left out
RegionGridShort(rs, from, to, gc, colBufferH) ==
    [k \in 1..(to - from - 1) |-> RowCells(rs[from + k - 1], gc, colBufferH)]

\* rows.slice(regionStart, i), each row turned into its cells
RegionGrid(rs, from, to, gc, colBufferH) ==
    [k \in 1..(to - from) |-> RowCells(rs[from + k - 1], gc, colBufferH)]

\* the while loop of step 6, from row i on
RECURSIVE FormatFrom(_, _, _, _)
FormatFrom(rs, i, gc, colBufferH) ==
    IF i > Len(rs) THEN <<>>
    ELSE IF ~rs[i].isTableRow
    THEN (IF Trim(rs[i].text) # <<>> THEN <<Trim(rs[i].text)>> ELSE <<>>)
         \o FormatFrom(rs, i + 1, gc, colBufferH)
    ELSE LET end == RegionEnd(rs, i)
             merged == MergeLogicalRows(RegionGrid(rs, i, end, gc, colBufferH))
         IN  RegionLines(merged) \o FormatFrom(rs, end, gc, colBufferH)

FormatOutput(rs, gc, globalColumnGapH) ==
    FormatFrom(rs, 1, gc, ColBuffer(globalColumnGapH))

\* the value detectTables returns: null, or a string
Null == [isNull |-> TRUE, text |-> <<>>]

Str(s) == [isNull |-> FALSE, text |-> s]

\* mutant of ResultOf: the "|| null" is missing
ResultOfNoNull(out) == Str(Trim(Join(out, NL)))

\* output.join("\n").trim() || null
ResultOf(out) ==
    LET res == Trim(Join(out, NL))
    IN  IF res # <<>> THEN Str(res) ELSE Null

----------------------------------------------------------------------------
(* detectTables as a function of its arguments                             *)

DetectTables(ws, options) ==
    LET o  == Resolve(options)
        t  == Thresholds(o, AllGaps(ws, o.yTolerance))
        rs == BuildRows(ws, o, t.columnGap)
        fp == FrequentPositions(rs, o)
        gc == ClusterPositions(fp, t.globalColumnGap)
        cl == ClassifyRows(rs, gc, t.alignTolerance)
    IN  IF Len(ws) = 0 THEN Null
        ELSE IF NoCandidateRows(rs) THEN Null
        ELSE IF NoFrequentPositions(fp) THEN Null
        ELSE IF TooManyColumns(gc, o.maxColumns) THEN Null
        ELSE IF DensityRejected(cl, o.minTableDensity) THEN Null
        ELSE ResultOf(FormatOutput(cl, gc, t.globalColumnGap))

----------------------------------------------------------------------------
(* The pages and options detectTables is called with                       *)

MaxRows == 3

PageWidth == 300

TextA == <<"a">>

TextNum == <<".", "1">>

TextBlank == <<" ">>

\* a run of 61 characters: longer than the 60 of the paragraph test
TextLong == [i \in 1..61 |-> "x"]

\* a short word at x0
Short(x) == [text |-> TextA, x0 |-> x, x1 |-> x + 20]

\* the text lines a page is made of: the words of one line, left to right
RowLayouts ==
    { <<Short(0), Short(100), Short(200)>>,
      <<Short(0), Short(30), Short(100), Short(200)>>,
      <<Short(0), Short(30)>>,
      <<Short(100), Short(200)>>,
      <<Short(0), Short(100)>>,
      <<Short(0)>>,
      <<[text |-> TextLong, x0 |-> 0, x1 |-> 200]>>,
      <<[text |-> TextNum, x0 |-> 0, x1 |-> 20], Short(100), Short(200)>>,
      <<[text |-> TextBlank, x0 |-> 0, x1 |-> 20],
        [text |-> TextBlank, x0 |-> 100, x1 |-> 120],
        [text |-> TextBlank, x0 |-> 200, x1 |-> 220]>> }

\* the top of the n-th text line of a page (n = 0, 1, ...)
TopOfLine(n) == 10 + 20 * n

NoOptions ==
    [pageWidth |-> PageWidth, yTolerance |-> Undefined, columnGap |-> Undefined,
     globalColumnGap |-> Undefined, alignTolerance |-> Undefined,
     minTableDensity |-> Undefined, maxColumns |-> Undefined]

Densities == {0, 20, 50, 100}

OptionSets ==
    {NoOptions, [NoOptions EXCEPT !.maxColumns = 2]}
    \cup {[NoOptions EXCEPT !.minTableDensity = d] : d \in Densities \ {20}}
    \cup {[NoOptions EXCEPT !.minTableDensity = 0, !.alignTolerance = 0]}

NoThresholds == [columnGap |-> 0, globalColumnGap |-> 0, alignTolerance |-> 0]

----------------------------------------------------------------------------
(* The state machine: a page is laid out word by word, then detectTables   *)
(* runs on it step by step                                                 *)

\* detectTables not called
DetIdle ==
    /\ words = <<>>
    /\ opts = NoOptions
    /\ pc = "input"
    /\ rows = <<>>
    /\ thr = NoThresholds
    /\ globalColumns = <<>>
    /\ output = <<>>
    /\ result = Null

\* mergeMasterFormatNumbering not called
NumIdle ==
    /\ mmText = <<>>
    /\ mmResult = Null

\* buildPageHtml not called
LayIdle ==
    /\ layPc = "input"
    /\ pageItems = <<>>
    /\ pageLines = <<>>
    /\ bodySize = 0
    /\ classified = <<>>
    /\ html = Null

\* PdfConverter.convert not called
PdfIdle ==
    /\ pdfPc = "input"
    /\ doc = <<>>
    /\ pageNum = 0
    /\ tableResult = Null
    /\ pageHtml = <<>>
    /\ chunks = <<>>
    /\ calls = <<>>
    /\ markdown = Null

\* PRIORITY_SPECIFIC, PRIORITY_GENERIC
PRIORITY_SPECIFIC == 0

PRIORITY_GENERIC == 10

\* register(converter, priority)
Registered(regs, converter, priority) ==
    Append(regs, [converter |-> converter, priority |-> priority])

\* registerBuiltins, on an empty registration list
RegisterBuiltins ==
    LET specific == <<"XmlRssConverter", "HtmlConverter", "PdfConverter",
                      "DocxConverter", "PptxConverter", "XlsxConverter",
                      "CsvConverter", "ImageConverter">>
    IN  Registered([i \in 1..Len(specific) |->
                       [converter |-> specific[i], priority |-> PRIORITY_SPECIFIC]],
                   "PlainTextConverter", PRIORITY_GENERIC)

NoInput == [accepts |-> {}, throws |-> {}]

NoOutcome == [kind |-> "none", by |-> "", attempts |-> <<>>]

\* convertBuffer not called, on the registrations regs
DisIdleOn(regs) ==
    /\ registrations = regs
    /\ disPc = "idle"
    /\ input = NoInput
    /\ sortedRegs = <<>>
    /\ pos = 0
    /\ attempts = <<>>
    /\ invoked = <<>>
    /\ outcome = NoOutcome

\* new Mdize({ enableBuiltins: false })
DisIdle == DisIdleOn(<<>>)

Init == DetIdle /\ NumIdle /\ LayIdle /\ PdfIdle /\ DisIdle

\* the extraction collaborator hands over the words of one more text line
AddRow(layout) ==
    /\ pc = "input"
    /\ LET n == Cardinality({words[i].top : i \in 1..Len(words)})
       IN  /\ n < MaxRows
           /\ words' = words \o [i \in 1..Len(layout) |->
                  [text |-> layout[i].text, x0 |-> layout[i].x0,
                   x1 |-> layout[i].x1, top |-> TopOfLine(n)]]
    /\ UNCHANGED <<opts, pc, rows, thr, globalColumns, output, result,
                   numVars, layVars, pdfVars, disVars>>

\* detectTables, lines 47-145: empty input, rows, thresholds, RowInfo
GroupRows(options) ==
    /\ pc = "input"
    /\ opts' = options
    /\ LET o == Resolve(options)
           t == Thresholds(o, AllGaps(words, o.yTolerance))
       IN  IF Len(words) = 0
           THEN /\ pc' = "done"
                /\ result' = Null
                /\ UNCHANGED <<rows, thr>>
           ELSE /\ pc' = "rows"
                /\ thr' = t
                /\ rows' = BuildRows(words, o, t.columnGap)
                /\ UNCHANGED result
    /\ UNCHANGED <<words, globalColumns, output, numVars, layVars, pdfVars, disVars>>

\* detectTables, lines 147-175: global columns and their gates
DetectColumns ==
    /\ pc = "rows"
    /\ LET o  == Resolve(opts)
           fp == FrequentPositions(rows, o)
           gc == ClusterPositions(fp, thr.globalColumnGap)
       IN  IF NoCandidateRows(rows) \/ NoFrequentPositions(fp)
           THEN /\ pc' = "done"
                /\ result' = Null
                /\ UNCHANGED globalColumns
           ELSE /\ globalColumns' = gc
                /\ IF TooManyColumns(gc, o.maxColumns)
                   THEN pc' = "done" /\ result' = Null
                   ELSE pc' = "columns" /\ UNCHANGED result
    /\ UNCHANGED <<words, opts, rows, thr, output, numVars, layVars, pdfVars, disVars>>

\* detectTables, lines 177-228: aligned words, table rows, gap filling
Classify ==
    /\ pc = "columns"
    /\ rows' = ClassifyRows(rows, globalColumns, thr.alignTolerance)
    /\ pc' = "classified"
    /\ UNCHANGED <<words, opts, thr, globalColumns, output, result, numVars, layVars, pdfVars, disVars>>

\* detectTables, lines 230-233: the density gate
Validate ==
    /\ pc = "classified"
    /\ IF DensityRejected(rows, Resolve(opts).minTableDensity)
       THEN pc' = "done" /\ result' = Null
       ELSE pc' = "valid" /\ UNCHANGED result
    /\ UNCHANGED <<words, opts, rows, thr, globalColumns, output, numVars, layVars, pdfVars, disVars>>

\* detectTables, lines 235-290: regions, merged rows, the returned markup
Format ==
    /\ pc = "valid"
    /\ output' = FormatOutput(rows, globalColumns, thr.globalColumnGap)
    /\ result' = ResultOf(output')
    /\ pc' = "done"
    /\ UNCHANGED <<words, opts, rows, thr, globalColumns, numVars, layVars, pdfVars, disVars>>

Next ==
    \/ \E layout \in RowLayouts : AddRow(layout)
    \/ \E options \in OptionSets : GroupRows(options)
    \/ DetectColumns
    \/ Classify
    \/ Validate
    \/ Format

Spec == Init /\ [][Next]_vars

----------------------------------------------------------------------------
(* Properties of detectTables                                              *)

\* detectTables has returned a string
Returned == pc = "done" /\ ~result.isNull

\* the lines of the returned markup
MarkupLines == SplitLines(result.text)

IsPipeLine(l) == Len(l) >= 1 /\ l[1] = "|"

\* the number of cells of a pipe-delimited line
CellCount(l) == Cardinality({i \in 1..Len(l) : l[i] = "|"}) - 1

PipeLineAt == {n \in 1..Len(MarkupLines) : IsPipeLine(MarkupLines[n])}

\* the separator line of a table of the page
SepLine == PipeLine([c \in 1..Len(globalColumns) |-> Dashes])

SepAt == {n \in 1..Len(MarkupLines) : MarkupLines[n] = SepLine}

\* the first rows of the maximal runs of table rows
RegionStarts ==
    {i \in 1..Len(rows) : rows[i].isTableRow /\ (i = 1 \/ ~rows[i - 1].isTableRow)}

\* the logical rows of the region that starts at row i
LogicalRows(i) ==
    MergeLogicalRows(RegionGrid(rows, i, RegionEnd(rows, i), globalColumns,
                                ColBuffer(thr.globalColumnGap)))

\* C1: in the markup detectTables returns, the header line, the separator
\* line and every data line of every table have exactly as many cells as the
\* page has global columns, also where physical rows were merged.
C1_NoRaggedRows ==
    Returned =>
        \A n \in PipeLineAt : CellCount(MarkupLines[n]) = Len(globalColumns)

\* a returned table in which physical rows were merged into a logical row
C1_Witness ==
    /\ Returned
    /\ PipeLineAt # {}
    /\ Cardinality(PipeLineAt) - Cardinality(RegionStarts) < TableRowCount(rows)

\* C2: with minTableDensity > 0, returned markup holds at least one table;
\* every maximal run of table rows gives exactly one header line (its first
\* logical row) immediately followed by one separator line of --- cells,
\* followed by its remaining logical rows as data lines.
C2_TableShape ==
    (Returned /\ Resolve(opts).minTableDensity > 0) =>
        LET starts == SetToSortedSeq(RegionStarts)
            seps   == SetToSortedSeq(SepAt)
        IN  /\ Len(seps) >= 1
            /\ Len(seps) = Len(starts)
            /\ \A k \in 1..Len(seps) :
                   LET n == seps[k]
                       logical == LogicalRows(starts[k])
                   IN  /\ n >= 2
                       /\ MarkupLines[n - 1] = PipeLine(logical[1])
                       /\ n + Len(logical) - 1 <= Len(MarkupLines)
                       /\ \A r \in 2..Len(logical) :
                              MarkupLines[n + r - 1] = PipeLine(logical[r])
                       /\ \A m \in PipeLineAt :
                              m > n + Len(logical) - 1 =>
                                  k < Len(seps) /\ m >= seps[k + 1] - 1

\* returned markup with two tables, a text line between them
C2_Witness ==
    /\ Returned
    /\ Resolve(opts).minTableDensity > 0
    /\ Cardinality(RegionStarts) = 2
    /\ Cardinality(SepAt) = 2

C4_MaxColumns ==
    pc = "done" =>
        /\ Len(globalColumns) > Resolve(opts).maxColumns => result.isNull
        /\ ~result.isNull =>
               \A n \in PipeLineAt :
                   CellCount(MarkupLines[n]) <= Resolve(opts).maxColumns

\* null for a page whose rows all align with every word to the columns
C4_Witness ==
    /\ pc = "done"
    /\ result.isNull
    /\ Len(globalColumns) > Resolve(opts).maxColumns
    /\ Len(rows) >= 2
    /\ \A k \in 1..Len(rows) :
           /\ Len(rows[k].words) >= 3
           /\ AlignedCount(rows[k], globalColumns, thr.alignTolerance)
                  = Len(rows[k].words)

\* the number of rows of the page: the distinct vertical buckets of its words
TotalRows ==
    Cardinality({RowKey(words[i], Resolve(opts).yTolerance) : i \in 1..Len(words)})

\* C5: null at density d stays null at every d' >= d; the density gate rejects
\* exactly when tableRowCount / totalRows < minTableDensity, totalRows being
\* all rows of the page, paragraph and numbering rows included.
C5_DensityGate ==
    /\ [](pc = "done" /\ result.isNull =>
            \A d \in Densities :
                d >= Resolve(opts).minTableDensity =>
                    DetectTables(words, [opts EXCEPT !.minTableDensity = d]).isNull)
    /\ [][pc = "classified" =>
            (pc' = "done" <=>
                TableRowCount(rows) * 100
                    < Resolve(opts).minTableDensity * TotalRows)]_vars

\* the density gate rejected a page that has table rows and a paragraph row
C5_Witness ==
    /\ pc = "done"
    /\ result.isNull
    /\ TableRowCount(rows) >= 1
    /\ \E k \in 1..Len(rows) : rows[k].isParagraph

\* how far a detectTables call has run
StageRank ==
    [input |-> 0, rows |-> 1, columns |-> 2, classified |-> 3, valid |-> 4,
     done |-> 5]

\* C7: a detectTables call always runs to its end and returns null or a
\* non-empty string, for every page and option setting: every step moves the
\* call on to a later stage, the call is defined on every page, and a failed
\* gate (no seed row, no frequent position, too many columns, density too
\* low) gives null.
C7_NeverRaises ==
    /\ [](pc \in DOMAIN StageRank)
    /\ [][pc' # pc => StageRank[pc'] > StageRank[pc]]_vars
    /\ [](pc = "input" =>
            \A options \in OptionSets :
                LET r == DetectTables(words, options)
                IN  r.isNull \/ Len(r.text) > 0)
    /\ [](pc = "done" => (result.isNull \/ Len(result.text) > 0))
    /\ []((pc = "done" /\ Len(words) > 0) =>
           LET o == Resolve(opts)
           IN  (\/ \A k \in 1..Len(rows) : ~IsSeedRow(rows[k])
                \/ FrequentPositions(rows, o) = <<>>
                \/ Len(globalColumns) > o.maxColumns
                \/ TableRowCount(rows) * 100 < o.minTableDensity * Len(rows))
                   => result.isNull)

\* every gate passed and the formatted output was empty: null is returned
C7_Witness ==
    /\ pc = "done"
    /\ result.isNull
    /\ Len(globalColumns) >= 1
    /\ Len(globalColumns) <= Resolve(opts).maxColumns
    /\ ~(TableRowCount(rows) * 100 < Resolve(opts).minTableDensity * Len(rows))

----------------------------------------------------------------------------
(* detectTables on a page handed over word by word, in any order, with the *)
(* thresholds overridden or not                                            *)

MaxWords == 4

TextB == <<"b">>

Word(text, x0, x1, top) == [text |-> text, x0 |-> x0, x1 |-> x1, top |-> top]

\* the words a page is made of: two narrow words one unit apart, a word a
\* column apart, two words that start at the same x, tops that round to the
\* same and to another row key
WordPool ==
    { Word(TextA, 0, 3, 10),
      Word(TextA, 4, 7, 12),
      Word(TextA, 100, 120, 10),
      Word(TextB, 0, 40, 10),
      Word(TextA, 100, 120, 13) }

OverrideSets ==
    { NoOptions,
      [NoOptions EXCEPT !.columnGap = 2],
      [NoOptions EXCEPT !.columnGap = 2, !.alignTolerance = 10],
      [NoOptions EXCEPT !.yTolerance = 2] }

\* the extraction collaborator hands over one more word
AddWord(w) ==
    /\ pc = "input"
    /\ Len(words) < MaxWords
    /\ words' = Append(words, w)
    /\ UNCHANGED <<opts, pc, rows, thr, globalColumns, output, result,
                   numVars, layVars, pdfVars, disVars>>

NextWords ==
    \/ \E w \in WordPool : AddWord(w)
    \/ \E options \in OverrideSets : GroupRows(options)
    \/ DetectColumns
    \/ Classify
    \/ Validate
    \/ Format

SpecWords == Init /\ [][NextWords]_vars

\* what a detectTables call on (ws, options) computes: thresholds and rows,
ThresholdsOf(ws, options) ==
    Thresholds(Resolve(options), AllGaps(ws, Resolve(options).yTolerance))

RowsOf(ws, options) ==
    BuildRows(ws, Resolve(options), ThresholdsOf(ws, options).columnGap)

\* global columns,
ColumnsOf(ws, options) ==
    ClusterPositions(FrequentPositions(RowsOf(ws, options), Resolve(options)),
                     ThresholdsOf(ws, options).globalColumnGap)

\* and classified rows
ClassesOf(ws, options) ==
    ClassifyRows(RowsOf(ws, options), ColumnsOf(ws, options),
                 ThresholdsOf(ws, options).alignTolerance)

\* the words with those at positions i and j exchanged
Swap(ws, i, j) == [ws EXCEPT ![i] = ws[j], ![j] = ws[i]]

\* the page's words in another order: any two exchanged (every reordering is
\* a chain of such exchanges), or none
Reorderings == {Swap(words, i, j) : i, j \in 1..Len(words)}

\* the running call agrees, at the step it has reached, with a call on ws
AgreesWith(ws) ==
    /\ pc = "rows" =>
           (RowsOf(ws, opts) = rows /\ ThresholdsOf(ws, opts) = thr)
    /\ pc = "columns" => ColumnsOf(ws, opts) = globalColumns
    /\ pc \in {"classified", "valid"} => ClassesOf(ws, opts) = rows
    /\ (pc = "done" /\ Len(words) > 0) => DetectTables(ws, opts) = result

\* two different words of one row start at the same x
SameStartInRow ==
    \E i, j \in 1..Len(words) :
        /\ words[i] # words[j]
        /\ words[i].x0 = words[j].x0
        /\ RowKey(words[i], Resolve(opts).yTolerance)
               = RowKey(words[j], Resolve(opts).yTolerance)

ThresholdsSet == pc # "input" /\ Len(words) > 0

\* C12 as stated: with only columnGap overridden, globalColumnGap is still
\* max(columnGap x 0.6, 6) and alignTolerance still max(columnGap x 1.5, 15),
\* the formulas used when nothing is overridden.
C12_AsStated ==
    (/\ ThresholdsSet
     /\ opts.columnGap # Undefined
     /\ opts.globalColumnGap = Undefined
     /\ opts.alignTolerance = Undefined)
        => /\ thr.columnGap = opts.columnGap * 100
           /\ thr.globalColumnGap = Max(opts.columnGap * 60, 600)
           /\ thr.alignTolerance = Max(opts.columnGap * 150, 1500)

\* the call has grouped the words of a non-empty page into rows
RowsBuilt == pc # "input" /\ Len(words) > 0

\* k is round(top / yTol) * yTol: k = n * yTol for the integer n nearest to
\* top / yTol, the upper one of two equally near
IsBucketOf(k, top, yTol) ==
    \E n \in 0..(top + 1) :
        /\ k = n * yTol
        /\ (2 * n - 1) * yTol <= 2 * top
        /\ 2 * top < (2 * n + 1) * yTol

\* how many times the word w occurs in the sequence ws
Occurrences(w, ws) == Cardinality({i \in 1..Len(ws) : ws[i] = w})

\* C15: the rows are a disjoint, total cover of the page's words: every word
\* is in exactly one row (as often as the page has it), the row whose key is
\* round(top / yTolerance) * yTolerance, so two words share a row iff their
\* keys are equal; rows come in ascending key order and the words of a row
\* in non-decreasing x0 order.
C15_RowCover ==
    RowsBuilt =>
        LET yTol == Resolve(opts).yTolerance
            InRow(w, k) == \E i \in 1..Len(rows[k].words) : rows[k].words[i] = w
        IN  /\ \A i \in 1..Len(words) :
                   /\ Cardinality({k \in 1..Len(rows) : InRow(words[i], k)}) = 1
                   /\ \A k \in 1..Len(rows) :
                          InRow(words[i], k) =>
                              /\ Occurrences(words[i], rows[k].words)
                                     = Occurrences(words[i], words)
                              /\ IsBucketOf(rows[k].yKey, words[i].top, yTol)
            /\ \A k \in 1..Len(rows) :
                   /\ Len(rows[k].words) > 0
                   /\ \A i \in 1..Len(rows[k].words) :
                          Occurrences(rows[k].words[i], words) > 0
                   /\ \A i \in 1..(Len(rows[k].words) - 1) :
                          rows[k].words[i].x0 <= rows[k].words[i + 1].x0
            /\ \A i, j \in 1..Len(words) :
                   (\E k \in 1..Len(rows) : InRow(words[i], k) /\ InRow(words[j], k))
                       <=> (\E n \in 0..(words[i].top + 1) :
                                /\ IsBucketOf(n * yTol, words[i].top, yTol)
                                /\ IsBucketOf(n * yTol, words[j].top, yTol))
            /\ \A k \in 1..(Len(rows) - 1) : rows[k].yKey < rows[k + 1].yKey

\* two rows; one holds words of different tops that came in out of x order,
\* the other a word whose top was rounded up to the row key
C15_Witness ==
    /\ RowsBuilt
    /\ Len(rows) = 2
    /\ \E i, j \in 1..Len(rows[1].words) :
           /\ i < j
           /\ rows[1].words[i].top # rows[1].words[j].top
           /\ \E a, b \in 1..Len(words) :
                  a > b /\ words[a] = rows[1].words[i] /\ words[b] = rows[1].words[j]
    /\ \E i \in 1..Len(rows[2].words) : rows[2].words[i].top < rows[2].yKey

\* the caller overrides none of the three thresholds
NoOverrides ==
    /\ opts.columnGap = Undefined
    /\ opts.globalColumnGap = Undefined
    /\ opts.alignTolerance = Undefined

\* the places (row, word) of the page with a positive gap to the next word
GapPlaces ==
    {p \in (1..Len(rows)) \X (1..MaxWords) :
        /\ p[2] < Len(rows[p[1]].words)
        /\ rows[p[1]].words[p[2] + 1].x0 - rows[p[1]].words[p[2]].x1 > 0}

GapAt(p) == rows[p[1]].words[p[2] + 1].x0 - rows[p[1]].words[p[2]].x1

\* v is the element at index floor(0.65 x |G|) of the sorted gaps G
IsP65(v) ==
    LET index == (65 * Cardinality(GapPlaces)) \div 100
    IN  /\ \E p \in GapPlaces : GapAt(p) = v
        /\ Cardinality({p \in GapPlaces : GapAt(p) < v}) <= index
        /\ index < Cardinality({p \in GapPlaces : GapAt(p) <= v})

\* C16: with no threshold overridden, columnGap = max(p65(G) x 1.2, 8),
\* globalColumnGap = max(columnGap x 0.6, 6) and alignTolerance =
\* max(columnGap x 1.5, 15), G being the positive gaps between neighbours of
\* all rows and p65 its element at index floor(0.65 x |G|); for empty G they
\* are 50, 30 and 40.  So columnGap >= 8, globalColumnGap >= 6 and
\* alignTolerance >= 15.  (Thresholds are in hundredths.)
C16_GapStatistics ==
    (RowsBuilt /\ NoOverrides) =>
        /\ GapPlaces = {} =>
               thr = [columnGap |-> 5000, globalColumnGap |-> 3000,
                      alignTolerance |-> 4000]
        /\ GapPlaces # {} =>
               /\ \E p \in GapPlaces :
                      /\ IsP65(GapAt(p))
                      /\ thr.columnGap = Max(GapAt(p) * 120, 800)
               /\ 10 * thr.globalColumnGap = Max(6 * thr.columnGap, 6000)
               /\ 10 * thr.alignTolerance = Max(15 * thr.columnGap, 15000)
        /\ thr.columnGap >= 800
        /\ thr.globalColumnGap >= 600
        /\ thr.alignTolerance >= 1500

\* thresholds above their minimum values, from the larger one of two gaps
C16_Witness ==
    /\ RowsBuilt
    /\ NoOverrides
    /\ Cardinality({GapAt(p) : p \in GapPlaces}) = 2
    /\ \E p \in GapPlaces : IsP65(GapAt(p)) /\ \E q \in GapPlaces : GapAt(q) < GapAt(p)
    /\ thr.globalColumnGap > 600

\* the x0 of the words of row k, ascending
RowX0s(k) == [i \in 1..Len(rows[k].words) |-> rows[k].words[i].x0]

\* the clusters of the ascending values xs for a gap (in hundredths): each
\* the set of indexes of a maximal run with no spacing above the gap
ClustersOf(xs, gapH) ==
    LET Joined(i, j) == \A n \in (i + 1)..j : (xs[n] - xs[n - 1]) * 100 <= gapH
    IN  {c \in {{j \in 1..Len(xs) : i <= j /\ j <= m} : i, m \in 1..Len(xs)} :
            /\ c # {}
            /\ \A i, j \in c : i <= j => Joined(i, j)
            /\ \A o \in (1..Len(xs)) \ c :
                   \E i \in c : IF o < i THEN ~Joined(o, i) ELSE ~Joined(i, o)}

\* reps holds one value per cluster, ascending, each picked by Pick
OnePerCluster(reps, xs, gapH, Pick(_)) ==
    LET clusters == ClustersOf(xs, gapH)
        Place(c) == Cardinality({d \in clusters : \A i \in d : \A j \in c : i < j}) + 1
    IN  /\ Len(reps) = Cardinality(clusters)
        /\ \A c \in clusters : reps[Place(c)] \in Pick(c)

First(c) == {CHOOSE i \in c : \A j \in c : i <= j}

\* the middle index of a cluster; either of the two for an even size
Middle(c) ==
    {i \in c : Cardinality({j \in c : j < i}) \in
                   {Cardinality(c) \div 2, (Cardinality(c) - 1) \div 2}}

SeedRowsAt(x) ==
    {k \in 1..Len(rows) :
        /\ IsSeedRow(rows[k])
        /\ \E i \in 1..Len(rows[k].words) :
               Abs(rows[k].words[i].x0 - x) <= Max(Resolve(opts).yTolerance, 5)}

\* C19 as stated: a position is retained for the global columns only if x0
\* values at that position, within the position tolerance, occur in at least
\* max(ceil(0.3 x seedCount), 2) of the seed rows; a position that occurs in
\* one seed row only is never retained.
C19_AsStated ==
    globalColumns # <<>> =>
        LET fp == FrequentPositions(rows, Resolve(opts))
            seedCount == Cardinality({k \in 1..Len(rows) : IsSeedRow(rows[k])})
        IN  \A i \in 1..Len(fp) :
                Cardinality(SeedRowsAt(fp[i])) >= Max(CeilDiv(3 * seedCount, 10), 2)

----------------------------------------------------------------------------
(* detectTables on pages of wide tables, sparse rows and numbering rows    *)

\* n short words, one every 30 units from x0 = 0
Evenly(n) == [i \in 1..n |-> Short(30 * (i - 1))]

\* the same with the first word replaced by a bare ordinal fragment
Numbered(n) == [Evenly(n) EXCEPT ![1].text = TextNum]

\* text lines: a row of nine columns, a sparse row of two words, numbering
\* rows of three and of two words, a row whose first two words are near
WideLayouts ==
    { Evenly(9), Evenly(2), Numbered(3), Numbered(2),
      <<Short(0), Short(30), Short(100), Short(200)>> }

WideOptionSets == {NoOptions, [NoOptions EXCEPT !.globalColumnGap = 40]}

NextRows ==
    \/ \E layout \in WideLayouts : AddRow(layout)
    \/ \E options \in WideOptionSets : GroupRows(options)
    \/ DetectColumns
    \/ Classify
    \/ Validate
    \/ Format

SpecRows == Init /\ [][NextRows]_vars

\* C18: the global columns strictly increase in x, adjacent ones are more
\* than globalColumnGap apart, and the list is set once, when the columns are
\* derived from the rows, and left as it is by classification, gap filling,
\* cell assignment and row merging.
C18_GlobalColumns ==
    /\ [](\A c \in 1..(Len(globalColumns) - 1) :
              /\ globalColumns[c] < globalColumns[c + 1]
              /\ (globalColumns[c + 1] - globalColumns[c]) * 100 > thr.globalColumnGap)
    /\ [][globalColumns' # globalColumns => (pc = "rows" /\ globalColumns = <<>>)]_vars

\* a table returned whose columns are fewer than the frequent positions:
\* positions within globalColumnGap of each other were merged
C18_Witness ==
    /\ Returned
    /\ PipeLineAt # {}
    /\ Len(globalColumns) >= 3
    /\ Len(FrequentPositions(rows, Resolve(opts))) > Len(globalColumns)

\* the rows whose first word is a bare ordinal fragment
NumberingRows == {k \in 1..Len(rows) : rows[k].hasPartialNumbering}

\* the global columns derived from the rows that satisfy Seed
ColumnsFrom(Seed(_)) ==
    LET pooled == Flatten([k \in 1..Len(rows) |->
                      IF Seed(rows[k]) THEN RowX0s(k) ELSE <<>>])
        seedCount == Cardinality({k \in 1..Len(rows) : Seed(rows[k])})
    IN  ClusterPositions(
            FindFrequentPositions(pooled, Max(Resolve(opts).yTolerance, 5),
                                  Max(CeilDiv(3 * seedCount, 10), 2)),
            thr.globalColumnGap)

\* a numbering row is not a table row, no word of it was counted as aligned,
\* and returned markup has its text as a plain line
NumberingRowsArePlainText ==
    \A k \in NumberingRows :
        /\ ~rows[k].isTableRow
        /\ rows[k].alignedCount = 0
        /\ Returned => \E n \in 1..Len(MarkupLines) :
                           /\ MarkupLines[n] = Trim(rows[k].text)
                           /\ ~IsPipeLine(MarkupLines[n])

\* C20 as stated: a numbering row is left out of every step after stage 1:
\* its x0 values are not pooled into the global-column derivation, it is not
\* counted for alignment, never marked a table row, and is emitted as plain
\* text.
C20_AsStated ==
    /\ NumberingRowsArePlainText
    /\ globalColumns # <<>> =>
           globalColumns = ColumnsFrom(LAMBDA r : /\ r.numColumns >= 3
                                                  /\ ~r.isParagraph
                                                  /\ ~r.hasPartialNumbering)

\* C20: a numbering row is left out of alignment counting and of gap
\* filling, is never marked a table row and is emitted as plain text; but it
\* is a seed row like any other when it has at least three clustered columns
\* and is not a paragraph, and its x0 values are then pooled into the
\* global-column derivation.
C20_NumberingRows ==
    /\ NumberingRowsArePlainText
    /\ globalColumns # <<>> =>
           globalColumns = ColumnsFrom(LAMBDA r : r.numColumns >= 3 /\ ~r.isParagraph)

\* a returned table of nine columns with a numbering seed row between two
\* table rows, where gap filling ran
C20_Witness ==
    /\ Returned
    /\ MinAligned(globalColumns) > 2
    /\ Len(rows) = 3
    /\ rows[1].isTableRow
    /\ 2 \in NumberingRows
    /\ rows[2].numColumns >= 3
    /\ rows[3].isTableRow

----------------------------------------------------------------------------
(* detectTables on longer pages: nine-column rows, sparse rows, paragraphs *)

MaxPageRows == 6

\* a paragraph: evenly spaced words across most of the page, each at a column
ParagraphLine == <<Short(0), Short(30), [text |-> TextLong, x0 |-> 60, x1 |-> 260]>>

\* a sparse row: two words at the second column, the first of them a little
\* left of it, and a word right of every column
OffColumnLine == <<Short(27), Short(35), Short(265)>>

RegionLayouts == {Evenly(9), OffColumnLine, ParagraphLine}

\* the extraction collaborator hands over the words of one more text line
\* of a page of at most max lines
AddRowUpTo(layout, max) ==
    /\ pc = "input"
    /\ LET n == Cardinality({words[i].top : i \in 1..Len(words)})
       IN  /\ n < max
           /\ words' = words \o [i \in 1..Len(layout) |->
                  [text |-> layout[i].text, x0 |-> layout[i].x0,
                   x1 |-> layout[i].x1, top |-> TopOfLine(n)]]
    /\ UNCHANGED <<opts, pc, rows, thr, globalColumns, output, result,
                   numVars, layVars, pdfVars, disVars>>

AddPageRow(layout) == AddRowUpTo(layout, MaxPageRows)

NextRegions ==
    \/ \E layout \in RegionLayouts : AddPageRow(layout)
    \/ GroupRows(NoOptions)
    \/ DetectColumns
    \/ Classify
    \/ Validate
    \/ Format

SpecRegions == Init /\ [][NextRegions]_vars

\* the rows have been classified (stage 3 and gap filling have run)
RowsClassified == pc \in {"classified", "valid"} \/ (pc = "done" /\ globalColumns # <<>>
                      /\ Len(globalColumns) <= Resolve(opts).maxColumns)

\* max(2, ceil(0.25 x columnCount))
AlignedNeeded == Max(2, CeilDiv(25 * Len(globalColumns), 100))

\* word i of row k starts within alignTolerance of a global column
IsAligned(k, i) ==
    \E c \in 1..Len(globalColumns) :
        /\ (rows[k].words[i].x0 - globalColumns[c]) * 100 < thr.alignTolerance
        /\ (globalColumns[c] - rows[k].words[i].x0) * 100 < thr.alignTolerance

\* C21: for every non-paragraph, non-fragment row alignedCount is the number
\* of its words that start within alignTolerance of some global column, each
\* word counted once; stage 3 marks the row a table row exactly when
\* alignedCount >= max(2, ceil(0.25 x columnCount)), and such a row is a
\* table row after gap filling too.
C21_Alignment ==
    /\ RowsClassified =>
           \A k \in 1..Len(rows) :
               (~rows[k].isParagraph /\ ~rows[k].hasPartialNumbering) =>
                   /\ rows[k].alignedCount
                          = Cardinality({i \in 1..Len(rows[k].words) : IsAligned(k, i)})
                   /\ rows[k].alignedCount >= AlignedNeeded => rows[k].isTableRow
    /\ pc = "columns" =>
           \A k \in 1..Len(rows) :
               (~rows[k].isParagraph /\ ~rows[k].hasPartialNumbering) =>
                   LET staged == ClassifyRow(rows[k], globalColumns, thr.alignTolerance)
                   IN  staged.isTableRow
                           <=> Cardinality({i \in 1..Len(rows[k].words) :
                                               IsAligned(k, i)}) >= AlignedNeeded

\* nine columns: a row of two aligned words that is not a table row, a row
\* with two of its three words aligned, and a table row
C21_Witness ==
    /\ pc = "classified"
    /\ AlignedNeeded = 3
    /\ \E k \in 1..Len(rows) : rows[k].alignedCount = 2 /\ ~rows[k].isTableRow
    /\ \E k \in 1..Len(rows) : rows[k].alignedCount = 2 /\ Len(rows[k].words) = 3
    /\ \E k \in 1..Len(rows) : rows[k].alignedCount = 9 /\ rows[k].isTableRow

\* row k met the stage 3 threshold
TrueTableRow(k) == rows[k].alignedCount >= AlignedNeeded

\* a true table row within maxGap = 3 rows of row k in direction d (-1 or 1),
\* with no paragraph row between
TrueTableRowNear(k, d) ==
    \E n \in 1..3 :
        /\ k + d * n \in 1..Len(rows)
        /\ TrueTableRow(k + d * n)
        /\ \A m \in 1..(n - 1) : ~rows[k + d * m].isParagraph

\* C22: a row that failed stage 3 is a table row only if it has at least two
\* aligned words and a true table row lies within 3 rows before it and
\* another within 3 rows after it, no paragraph row between: the promotion
\* of one row does not enable the promotion of another.
C22_AsStated ==
    RowsClassified =>
        \A k \in 1..Len(rows) :
            (rows[k].isTableRow /\ ~TrueTableRow(k)) =>
                /\ rows[k].alignedCount >= 2
                /\ TrueTableRowNear(k, -1)
                /\ TrueTableRowNear(k, 1)

\* the number of times text t stands in line l as a space-delimited token
TokenCount(l, t) ==
    Cardinality({i \in 1..(Len(l) - Len(t) + 1) :
        /\ SubSeq(l, i, i + Len(t) - 1) = t
        /\ (i = 1 \/ l[i - 1] = " ")
        /\ (i + Len(t) > Len(l) \/ l[i + Len(t)] = " ")})

\* the output lines that are no pipe lines
PlainAt == {n \in 1..Len(output) : ~IsPipeLine(output[n])}

\* the output line of plain row k: the text line after the text lines of the
\* plain rows above it and the separator lines of the regions above it
PlainLineOf(k) ==
    {n \in PlainAt :
        /\ Cardinality({m \in PlainAt : m < n})
               = Cardinality({j \in 1..(k - 1) : ~rows[j].isTableRow})
        /\ Cardinality({m \in 1..(n - 1) : output[m] = SepLine})
               = Cardinality({s \in RegionStarts : s < k})}

\* C23: after stage 3 and gap filling no paragraph row is a table row; no
\* table region of the returned markup contains a paragraph row, each
\* paragraph row is emitted as a plain text line between the regions.
C23_Paragraphs ==
    /\ RowsClassified =>
           \A k \in 1..Len(rows) : rows[k].isParagraph => ~rows[k].isTableRow
    /\ Returned =>
           \A k \in 1..Len(rows) :
               rows[k].isParagraph =>
                   /\ result.text = Join(output, NL)
                   /\ \A s \in RegionStarts : ~(s <= k /\ k < RegionEnd(rows, s))
                   /\ \E n \in PlainLineOf(k) : output[n] = Trim(rows[k].text)

\* returned markup with a paragraph between two tables, its words at columns
C23_Witness ==
    /\ Returned
    /\ Len(globalColumns) = 9
    /\ \E k \in 2..(Len(rows) - 1) :
           /\ rows[k].isParagraph
           /\ Len(rows[k].words) = 3
           /\ \A i \in 1..3 : IsAligned(k, i)
           /\ rows[k - 1].isTableRow
           /\ rows[k + 1].isTableRow

\* the markup has been produced from the classified rows
Formatted == pc = "done" /\ (output # <<>> \/ ~result.isNull)

\* column c takes word w: w starts left of the next column's position less
\* the buffer max(globalColumnGap x 0.5, 4), or c is the last column
Takes(c, w) ==
    \/ c = Len(globalColumns)
    \/ w.x0 * 100 < globalColumns[c + 1] * 100 - Max(thr.globalColumnGap \div 2, 400)

\* the lowest column that takes word w
LowestTaking(w) ==
    CHOOSE c \in 1..Len(globalColumns) :
        Takes(c, w) /\ \A d \in 1..(c - 1) : ~Takes(d, w)

\* the words of row k that column c takes, left to right
WordsIn(k, c) == SelectSeq(rows[k].words, LAMBDA w : LowestTaking(w) = c)

\* the cells of row k: per column the texts of its words, space-joined
CellsOf(k) ==
    [c \in 1..Len(globalColumns) |->
        Join([i \in 1..Len(WordsIn(k, c)) |-> WordsIn(k, c)[i].text], SP)]

\* C24: every word of a row of a table region goes to exactly one column,
\* the lowest c with x0 < globalColumns[c+1] - colBuffer where colBuffer =
\* max(globalColumnGap x 0.5, 4), else the last column; the words of a cell
\* are joined by single spaces in x0 order; every row of the region gives
\* exactly one physical grid row.
C24_CellAssignment ==
    Formatted =>
        \A s \in RegionStarts :
            LET end  == RegionEnd(rows, s)
                grid == RegionGrid(rows, s, end, globalColumns,
                                   ColBuffer(thr.globalColumnGap))
            IN  /\ Len(grid) = end - s
                /\ \A k \in s..(end - 1) :
                       /\ \A i \in 1..(Len(rows[k].words) - 1) :
                              rows[k].words[i].x0 <= rows[k].words[i + 1].x0
                       /\ \A i \in 1..Len(rows[k].words) :
                              Cardinality({c \in 1..Len(globalColumns) :
                                  AssignedCol(rows[k].words[i], globalColumns,
                                              ColBuffer(thr.globalColumnGap)) = c}) = 1
                       /\ grid[k - s + 1] = CellsOf(k)
                /\ end - s = 1 =>
                       \E n \in 1..Len(output) : output[n] = PipeLine(CellsOf(s))

\* a table row with two words in one cell, the first of them left of the
\* column's position by less than the buffer, and a word in the last column
\* that starts right of it
C24_Witness ==
    /\ Formatted
    /\ \E k \in 1..Len(rows) :
           /\ rows[k].isTableRow
           /\ Len(WordsIn(k, 2)) = 2
           /\ WordsIn(k, 2)[1].x0 < globalColumns[2]
           /\ WordsIn(k, Len(globalColumns)) # <<>>
           /\ WordsIn(k, Len(globalColumns))[1].x0 > globalColumns[Len(globalColumns)]

\* the number of space-delimited tokens of line l
Tokens(l) ==
    Cardinality({i \in 1..Len(l) : l[i] # " " /\ (i = 1 \/ l[i - 1] = " ")})

\* the number of tokens of the output lines that are text t
OutputCount(t) ==
    LET RECURSIVE Sum(_)
        Sum(n) == IF n = 0 THEN 0 ELSE TokenCount(output[n], t) + Sum(n - 1)
    IN  Sum(Len(output))

\* the number of tokens of the output lines
OutputTokens ==
    LET RECURSIVE Sum(_)
        Sum(n) == IF n = 0 THEN 0 ELSE Tokens(output[n]) + Sum(n - 1)
    IN  Sum(Len(output))

\* the output lines that belong to the region starting at s: the pipe lines
\* after the text lines of the plain rows above the region
RegionLinesOf(s) ==
    {n \in 1..Len(output) :
        /\ IsPipeLine(output[n])
        /\ Cardinality({m \in PlainAt : m < n})
               = Cardinality({j \in 1..(s - 1) : ~rows[j].isTableRow})}

\* C27: when detectTables returns markup, every input word (all have
\* non-blank text) appears in it exactly once: in the cell of its column in
\* a line of its region when its row is a table row, else in the text line
\* of its row; rows and regions are emitted in ascending row-key order.
C27_NoWordLost ==
    Returned =>
        /\ result.text = Join(output, NL)
        /\ \A t \in {words[i].text : i \in 1..Len(words)} :
               OutputCount(t) = Cardinality({j \in 1..Len(words) : words[j].text = t})
        /\ OutputTokens = Len(words) + OutputCount(<<"|">>) + OutputCount(Dashes)
        /\ \A k \in 1..(Len(rows) - 1) : rows[k].yKey < rows[k + 1].yKey
        /\ \A k \in 1..Len(rows) :
               ~rows[k].isTableRow =>
                   \E n \in PlainLineOf(k) :
                       output[n] = Join([i \in 1..Len(rows[k].words) |->
                                            rows[k].words[i].text], SP)
        /\ \A s \in RegionStarts :
               LET logical == LogicalRows(s)
                   lines   == {output[n] : n \in RegionLinesOf(s)}
               IN  \A k \in s..(RegionEnd(rows, s) - 1) :
                       \A i \in 1..Len(rows[k].words) :
                           \E r \in 1..Len(logical) :
                               /\ TokenCount(logical[r][LowestTaking(rows[k].words[i])],
                                             rows[k].words[i].text) >= 1
                               /\ PipeLine(logical[r]) \in lines

\* returned markup of a page with a plain row, a paragraph and two regions,
\* one of them with a row merged into the row above it
C27_Witness ==
    /\ Returned
    /\ Cardinality(RegionStarts) = 2
    /\ \E k \in 1..Len(rows) : rows[k].isParagraph
    /\ \E k \in 1..Len(rows) : ~rows[k].isParagraph /\ ~rows[k].isTableRow
    /\ \E s \in RegionStarts : Len(LogicalRows(s)) < RegionEnd(rows, s) - s

----------------------------------------------------------------------------
(* mergeLogicalRows on the grids of six-column tables                      *)

MaxGridRows == 5

\* words at the given columns of a six-column table (columns 30 apart)
At(cols) == [i \in 1..Len(cols) |-> Short(30 * (cols[i] - 1))]

\* the words of a layout with another text
Relabel(layout, text) == [i \in 1..Len(layout) |-> [layout[i] EXCEPT !.text = text]]

\* a full row, a row of the first two cells, a row of the next three, and a
\* row of the second and third cell with a text of its own
GridLayouts ==
    {Evenly(6), At(<<1, 2>>), At(<<3, 4, 5>>), Relabel(At(<<2, 3>>), TextB)}

AddGridRow(layout) == AddRowUpTo(layout, MaxGridRows)

NextMerge ==
    \/ \E layout \in GridLayouts : AddGridRow(layout)
    \/ GroupRows(NoOptions)
    \/ DetectColumns
    \/ Classify
    \/ Validate
    \/ Format

SpecMerge == Init /\ [][NextMerge]_vars

\* the physical grid of the region that starts at row s
PhysicalRows(s) ==
    RegionGrid(rows, s, RegionEnd(rows, s), globalColumns,
               ColBuffer(thr.globalColumnGap))

\* the columns that physical row i of grid g fills
Cols(g, i) == {c \in 1..Len(g[i]) : g[i][c] # <<>>}

\* the first row of the group of row i, when the rows in S start the groups
GroupStart(S, i) == CHOOSE j \in S : j <= i /\ \A k \in S : k <= i => k <= j

\* the columns the buffer fills when row i arrives
BufferCols(g, S, i) == UNION {Cols(g, j) : j \in GroupStart(S, i - 1)..(i - 1)}

\* row i shares no filled column with the buffer, or fills fewer than half
\* as many cells as the buffer does
Folded(g, S, i) ==
    \/ Cols(g, i) \cap BufferCols(g, S, i) = {}
    \/ 2 * Cardinality(Cols(g, i)) < Cardinality(BufferCols(g, S, i))

\* the cell of column c of the group of rows from..to: the filled cells of
\* the column, top to bottom, space-joined
GroupCell(g, from, to, c) ==
    LET filled == SelectSeq([k \in 1..(to - from + 1) |-> g[from + k - 1][c]],
                            LAMBDA cell : cell # <<>>)
    IN  Join(filled, SP)

\* C25: the first physical row starts the first logical row; a later row is
\* folded into the buffer exactly when it shares no filled column with it or
\* fills fewer than half as many cells as the buffer currently does, its
\* cells appended space-joined in the same column; otherwise the buffer is
\* flushed and the row starts the next one; the last buffer is flushed.
C25_MergeRule ==
    Formatted =>
        \A s \in RegionStarts :
            LET g == PhysicalRows(s)
                n == Len(g)
                logical == LogicalRows(s)
            IN  \E S \in SUBSET (1..n) :
                    /\ 1 \in S
                    /\ \A i \in 2..n : i \notin S <=> Folded(g, S, i)
                    /\ Len(logical) = Cardinality(S)
                    /\ \A r \in 1..Len(logical) :
                           LET starts == SetToSortedSeq(S)
                               from == starts[r]
                               to   == IF r < Len(starts) THEN starts[r + 1] - 1 ELSE n
                           IN  logical[r] = [c \in 1..Len(globalColumns) |->
                                                GroupCell(g, from, to, c)]
                    /\ \A r \in 1..Len(logical) :
                           \E m \in 1..Len(output) : output[m] = PipeLine(logical[r])

\* a row folded because it shares no column with the buffer, then a row
\* folded because it fills fewer than half the cells the grown buffer fills
\* (not fewer than half of the first row's), then a row that starts anew
C25_Witness ==
    /\ Formatted
    /\ \E s \in RegionStarts :
           LET g == PhysicalRows(s)
           IN  /\ Len(g) >= 4
               /\ Cols(g, 2) \cap Cols(g, 1) = {}
               /\ Cols(g, 3) \cap Cols(g, 1) # {}
               /\ 2 * Cardinality(Cols(g, 3)) >= Cardinality(Cols(g, 1))
               /\ 2 * Cardinality(Cols(g, 3)) < Cardinality(Cols(g, 1) \cup Cols(g, 2))
               /\ Cardinality(Cols(g, 4)) = 6
               /\ Len(LogicalRows(s)) >= 2

\* the filled cells of column c of grid g, top to bottom, space-joined
ColumnText(g, c) ==
    Join(SelectSeq([i \in 1..Len(g) |-> g[i][c]], LAMBDA cell : cell # <<>>), SP)

\* C26: mergeLogicalRows conserves the content of every column: the filled
\* cells of a column read top to bottom over the physical rows are the same
\* texts in the same order as over the logical rows (merged cells split at
\* the joining space), and there are at least one and at most as many
\* logical rows as physical rows.
C26_Conservation ==
    Formatted =>
        \A s \in RegionStarts :
            LET g == PhysicalRows(s)
                logical == LogicalRows(s)
            IN  /\ 1 <= Len(logical)
                /\ Len(logical) <= Len(g)
                /\ \A r \in 1..Len(logical) : Len(logical[r]) = Len(globalColumns)
                /\ \A c \in 1..Len(globalColumns) :
                       ColumnText(logical, c) = ColumnText(g, c)

\* fewer logical rows than physical rows, and a merged cell that holds two
\* different texts
C26_Witness ==
    /\ Formatted
    /\ \E s \in RegionStarts :
           LET logical == LogicalRows(s)
           IN  /\ 2 <= Len(logical)
               /\ Len(logical) < Len(PhysicalRows(s))
               /\ \E r \in 1..Len(logical) : logical[r][2] = TextA \o SP \o TextB

----------------------------------------------------------------------------
(* mergeMasterFormatNumbering                                              *)

\* mutant of SkipBlankLines: the look-ahead stops at the next line
SkipBlankLinesNone(lines, j) == j

\* the look-ahead loop: the first index from j on of a line that is not blank
RECURSIVE SkipBlankLines(_, _)
SkipBlankLines(lines, j) ==
    IF j <= Len(lines) /\ Trim(lines[j]) = <<>>
    THEN SkipBlankLines(lines, j + 1) ELSE j

\* mutant of MergeLinesFrom: the merged text line is not skipped
RECURSIVE MergeLinesFromNoSkip(_, _, _)
MergeLinesFromNoSkip(lines, i, res) ==
    IF i > Len(lines) THEN res
    ELSE IF PARTIAL_NUMBERING(Trim(lines[i]))
    THEN LET j == SkipBlankLines(lines, i + 1)
         IN  IF j <= Len(lines)
             THEN MergeLinesFromNoSkip(lines, i + 1,
                      Append(res, Trim(lines[i]) \o SP \o Trim(lines[j])))
             ELSE MergeLinesFromNoSkip(lines, i + 1, Append(res, lines[i]))
    ELSE MergeLinesFromNoSkip(lines, i + 1, Append(res, lines[i]))

\* the for loop of mergeMasterFormatNumbering, from line i on
RECURSIVE MergeLinesFrom(_, _, _)
MergeLinesFrom(lines, i, res) ==
    IF i > Len(lines) THEN res
    ELSE IF PARTIAL_NUMBERING(Trim(lines[i]))
    THEN LET j == SkipBlankLines(lines, i + 1)
         IN  IF j <= Len(lines)
             THEN MergeLinesFrom(lines, j + 1,
                      Append(res, Trim(lines[i]) \o SP \o Trim(lines[j])))
             ELSE MergeLinesFrom(lines, i + 1, Append(res, lines[i]))
    ELSE MergeLinesFrom(lines, i + 1, Append(res, lines[i]))

MergeMasterFormatNumbering(text) ==
    Join(MergeLinesFrom(SplitLines(text), 1, <<>>), NL)

MaxText == 6

\* the characters a text is made of
TextChars == {".", "1", "a", " ", "\n"}

\* the caller's text grows by one character
TypeChar(c) ==
    /\ mmResult.isNull
    /\ Len(mmText) < MaxText
    /\ mmText' = Append(mmText, c)
    /\ UNCHANGED <<mmResult, detVars, layVars, pdfVars, disVars>>

\* mergeMasterFormatNumbering(text)
MergeNumbering ==
    /\ mmResult.isNull
    /\ mmResult' = Str(MergeMasterFormatNumbering(mmText))
    /\ UNCHANGED <<mmText, detVars, layVars, pdfVars, disVars>>

NextNumbering ==
    \/ \E c \in TextChars : TypeChar(c)
    \/ MergeNumbering

SpecNumbering == Init /\ [][NextNumbering]_vars

----------------------------------------------------------------------------
(* Properties of mergeMasterFormatNumbering                                *)

\* mergeMasterFormatNumbering has returned
Merged == ~mmResult.isNull

TextLines == SplitLines(mmText)

IsBlankLine(l) == Trim(l) = <<>>

IsTextLine(l) == ~IsBlankLine(l)

\* the first non-blank line after line i, 0 when there is none
NextTextLine(lines, i) ==
    LET later == {j \in (i + 1)..Len(lines) : IsTextLine(lines[j])}
    IN  IF later = {} THEN 0 ELSE CHOOSE j \in later : \A k \in later : j <= k

\* the lines the scan described by C8 gives from line i on; trimmed says
\* whether a line counts as a fragment, and is merged, in its trimmed form
RECURSIVE ScannedLines(_, _, _)
ScannedLines(lines, i, trimmed) ==
    IF i > Len(lines) THEN <<>>
    ELSE LET fragment == IF trimmed THEN Trim(lines[i]) ELSE lines[i]
             j == NextTextLine(lines, i)
         IN  IF PARTIAL_NUMBERING(fragment) /\ j # 0
             THEN <<fragment \o SP \o (IF trimmed THEN Trim(lines[j]) ELSE lines[j])>>
                  \o ScannedLines(lines, j + 1, trimmed)
             ELSE <<lines[i]>> \o ScannedLines(lines, i + 1, trimmed)

\* C8 as stated: a line that is exactly a bare fragment (a dot and digits) and
\* has a later non-blank line is replaced, with the blank lines between and
\* that line, by "<fragment> <text>"; every other line passes through
\* unchanged; a text with no bare-fragment line comes back identical.
C8_AsStated ==
    Merged =>
        /\ mmResult.text = Join(ScannedLines(TextLines, 1, FALSE), NL)
        /\ (\A i \in 1..Len(TextLines) : ~PARTIAL_NUMBERING(TextLines[i]))
               => mmResult.text = mmText

\* C8 amended: a line that is a bare fragment once trimmed and has a later
\* non-blank line is replaced, with the blank lines between and that line, by
\* "<trimmed fragment> <trimmed text>"; every other line passes through
\* unchanged and in order; a text with no such line comes back identical; and
\* dropping the blank lines of the input changes no merged or passed line.
C8_MergeNumbering ==
    Merged =>
        /\ mmResult.text = Join(ScannedLines(TextLines, 1, TRUE), NL)
        /\ (\A i \in 1..Len(TextLines) : ~PARTIAL_NUMBERING(Trim(TextLines[i])))
               => mmResult.text = mmText
        /\ SelectSeq(SplitLines(mmResult.text), IsTextLine)
               = SplitLines(MergeMasterFormatNumbering(
                     Join(SelectSeq(TextLines, IsTextLine), NL)))
           \/ \A i \in 1..Len(TextLines) : IsBlankLine(TextLines[i])

\* a fragment with spaces around it merged with a text line past a blank line
C8_Witness ==
    /\ Merged
    /\ \E i \in 1..Len(TextLines) :
           /\ TextLines[i] # Trim(TextLines[i])
           /\ PARTIAL_NUMBERING(Trim(TextLines[i]))
           /\ NextTextLine(TextLines, i) > i + 1
    /\ Len(SplitLines(mmResult.text)) < Len(TextLines)

\* the lines of the text mergeMasterFormatNumbering returned
MergedLines == SplitLines(mmResult.text)

\* C30: mergeMasterFormatNumbering is idempotent; after one pass an output
\* line that is a bare numbering fragment is a fragment line of the input
\* that had no non-blank line after it (and has none after it in the
\* output); the output never has more lines than the input.
C30_Idempotent ==
    Merged =>
        /\ MergeMasterFormatNumbering(mmResult.text) = mmResult.text
        /\ \A n \in 1..Len(MergedLines) :
               PARTIAL_NUMBERING(Trim(MergedLines[n])) =>
                   /\ NextTextLine(MergedLines, n) = 0
                   /\ \E i \in 1..Len(TextLines) :
                          /\ TextLines[i] = MergedLines[n]
                          /\ NextTextLine(TextLines, i) = 0
        /\ Len(MergedLines) <= Len(TextLines)

\* two fragments with a blank line between them: the first is merged with
\* the second, which is the last line of the input, and no fragment is left
C30_Witness ==
    /\ Merged
    /\ Len(TextLines) = 3
    /\ PARTIAL_NUMBERING(Trim(TextLines[1]))
    /\ IsBlankLine(TextLines[2])
    /\ PARTIAL_NUMBERING(Trim(TextLines[3]))
    /\ Len(MergedLines) = 1
    /\ ~PARTIAL_NUMBERING(Trim(MergedLines[1]))

----------------------------------------------------------------------------
(* buildPageHtml: text items, enriched items, lines                        *)

\* A text item of the extraction collaborator: str, the transform entries
\* a = tx[0], d = tx[3], e = tx[4], f = tx[5], width and fontName; hasStr is
\* FALSE for an item without a str property (marked content).

\* linkUrl: null
NoUrl == <<>>

\* /Bold|Black|Heavy/i.test(fontFamily), for the font families of the styles
BoldFamilies == {"Helvetica-Bold", "Arial Black", "Times-BoldItalic"}

\* /Italic|Oblique/i.test(fontFamily)
ItalicFamilies == {"Times-Italic", "Helvetica-Oblique", "Times-BoldItalic"}

\* styles[item.fontName]?.fontFamily ?? ""
FontFamily(styles, fontName) ==
    IF fontName \in DOMAIN styles THEN styles[fontName] ELSE ""

\* Math.abs(tx[0]), else Math.abs(tx[3]), else 12
ItemFontSize(item) ==
    IF Abs(item.a) # 0 THEN Abs(item.a)
    ELSE IF Abs(item.d) # 0 THEN Abs(item.d)
    ELSE 12

\* the url of the first annotation whose rect holds the item's centre
RECURSIVE LinkAt(_, _, _, _)
LinkAt(annotations, k, cx2, cy) ==
    IF k > Len(annotations) THEN NoUrl
    ELSE LET rect == annotations[k].rect
         IN  IF /\ cx2 >= 2 * rect[1] /\ cx2 <= 2 * rect[3]
                /\ cy >= rect[2] /\ cy <= rect[4]
             THEN annotations[k].url
             ELSE LinkAt(annotations, k + 1, cx2, cy)

\* Phase A: one enriched item
EnrichItem(item, styles, annotations, viewportHeight) ==
    [str      |-> item.str,
     x0       |-> item.e,
     top      |-> viewportHeight - item.f,
     fontSize |-> ItemFontSize(item),
     bold     |-> FontFamily(styles, item.fontName) \in BoldFamilies,
     italic   |-> FontFamily(styles, item.fontName) \in ItalicFamilies,
     linkUrl  |-> LinkAt(annotations, 1, 2 * item.e + item.width, item.f)]

\* Phase A: the items that have a non-blank str, enriched
RECURSIVE Enrich(_, _, _, _, _)
Enrich(items, k, styles, annotations, viewportHeight) ==
    IF k > Len(items) THEN <<>>
    ELSE (IF ~items[k].hasStr \/ Trim(items[k].str) = <<>>
          THEN <<>>
          ELSE <<EnrichItem(items[k], styles, annotations, viewportHeight)>>)
         \o Enrich(items, k + 1, styles, annotations, viewportHeight)

\* buildLine: the text of the items, a space put between two items unless the
\* text ends with one or the item starts with one
RECURSIVE LineText(_, _, _)
LineText(items, k, text) ==
    IF k > Len(items) THEN text
    ELSE LET str == items[k].str
             gap == IF /\ text # <<>>
                       /\ text[Len(text)] # " "
                       /\ ~(str # <<>> /\ str[1] = " ")
                    THEN SP ELSE <<>>
         IN  LineText(items, k + 1, text \o gap \o str)

RECURSIVE TotalChars(_, _)
TotalChars(items, k) ==
    IF k = 0 THEN 0 ELSE TotalChars(items, k - 1) + Len(Trim(items[k].str))

RECURSIVE WeightedSize(_, _)
WeightedSize(items, k) ==
    IF k = 0 THEN 0
    ELSE WeightedSize(items, k - 1)
             + items[k].fontSize * Len(Trim(items[k].str))

\* the first non-null link of the items
RECURSIVE FirstLink(_, _)
FirstLink(items, k) ==
    IF k > Len(items) THEN NoUrl
    ELSE IF items[k].linkUrl # NoUrl THEN items[k].linkUrl
    ELSE FirstLink(items, k + 1)

\* buildLine; fontSize is the fraction sizeNum / sizeDen
BuildLine(lineItems) ==
    LET items      == SortByX0(lineItems)
        totalChars == TotalChars(items, Len(items))
    IN  [text    |-> Trim(LineText(items, 1, <<>>)),
         sizeNum |-> IF totalChars > 0 THEN WeightedSize(items, Len(items)) ELSE 12,
         sizeDen |-> IF totalChars > 0 THEN totalChars ELSE 1,
         bold    |-> \A k \in 1..Len(items) : items[k].bold,
         italic  |-> \A k \in 1..Len(items) : items[k].italic,
         indent  |-> items[1].x0,
         top     |-> items[1].top,
         linkUrl |-> FirstLink(items, 1),
         items   |-> items]

\* Phase B: the lines from enriched item i on, currentItems being open
RECURSIVE GroupLinesFrom(_, _, _)
GroupLinesFrom(enriched, i, currentItems) ==
    IF i > Len(enriched) THEN <<BuildLine(currentItems)>>
    ELSE IF Abs(enriched[i].top - enriched[i - 1].top) > 5
    THEN <<BuildLine(currentItems)>> \o GroupLinesFrom(enriched, i + 1, <<enriched[i]>>)
    ELSE GroupLinesFrom(enriched, i + 1, Append(currentItems, enriched[i]))

GroupLines(enriched) ==
    IF enriched = <<>> THEN <<>> ELSE GroupLinesFrom(enriched, 2, <<enriched[1]>>)

----------------------------------------------------------------------------
(* buildPageHtml: body font size and line types                            *)

\* Math.round(line.fontSize * 2): the line's size rounded to the nearest 0.5,
\* counted in half points
RoundedSize(line) == JSRound(2 * line.sizeNum, line.sizeDen)

\* the keys of fontSizeCounts in insertion order
RECURSIVE SizeKeys(_, _)
SizeKeys(lines, k) ==
    IF k = 0 THEN <<>>
    ELSE LET keys == SizeKeys(lines, k - 1)
             size == RoundedSize(lines[k])
         IN  IF \E n \in 1..Len(keys) : keys[n] = size
             THEN keys ELSE Append(keys, size)

\* mutant of SizeCount: the lines of that size are counted, not their characters
RECURSIVE SizeCountLines(_, _, _)
SizeCountLines(lines, k, size) ==
    IF k = 0 THEN 0
    ELSE SizeCountLines(lines, k - 1, size)
             + (IF RoundedSize(lines[k]) = size THEN 1 ELSE 0)

\* fontSizeCounts.get(size): the characters of the lines of that size
RECURSIVE SizeCount(_, _, _)
SizeCount(lines, k, size) ==
    IF k = 0 THEN 0
    ELSE SizeCount(lines, k - 1, size)
             + (IF RoundedSize(lines[k]) = size THEN Len(lines[k].text) ELSE 0)

\* the loop over fontSizeCounts, from key k on
RECURSIVE BodySizeFrom(_, _, _, _, _)
BodySizeFrom(lines, keys, k, body, maxCount) ==
    IF k > Len(keys) THEN body
    ELSE LET count == SizeCount(lines, Len(lines), keys[k])
         IN  IF count > maxCount
             THEN BodySizeFrom(lines, keys, k + 1, keys[k], count)
             ELSE BodySizeFrom(lines, keys, k + 1, body, maxCount)

\* Phase C: the body font size in half points (12 when nothing counts)
BodySize(lines) ==
    BodySizeFrom(lines, SizeKeys(lines, Len(lines)), 1, 2 * 12, 0)

\* the characters one code unit long that may not be written here as they are
BulletChars == {"U+2022", "U+25CF", "U+25CB", "U+25AA", "U+25A0", "-", "*", "U+2192"}

LowerCase ==
    {"a", "b", "c", "d", "e", "f", "g", "h", "i", "j", "k", "l", "m",
     "n", "o", "p", "q", "r", "s", "t", "u", "v", "w", "x", "y", "z"}

UpperCase ==
    {"A", "B", "C", "D", "E", "F", "G", "H", "I", "J", "K", "L", "M",
     "N", "O", "P", "Q", "R", "S", "T", "U", "V", "W", "X", "Y", "Z"}

Letters == LowerCase \cup UpperCase

\* the length of the longest run of characters of set from position k on
RunLength(t, k, set) ==
    LET stop == {i \in k..Len(t) : t[i] \notin set}
    IN  IF k > Len(t) THEN 0
        ELSE IF stop = {} THEN Len(t) - k + 1
        ELSE (CHOOSE i \in stop : \A j \in stop : i <= j) - k

\* /^[bullets]\s/.test(text)
IsBulletText(t) ==
    Len(t) >= 2 /\ t[1] \in BulletChars /\ t[2] \in WhiteSpace

\* the length of the match of /^(\d+[.)]\s|[a-z][.)]\s|\([a-z0-9]+\)\s)/i, 0
\* when the text does not match
OrderedPrefix(t) ==
    LET digits == RunLength(t, 1, Digits)
        inner  == RunLength(t, 2, Letters \cup Digits)
    IN  IF /\ digits >= 1 /\ Len(t) >= digits + 2
           /\ t[digits + 1] \in {".", ")"} /\ t[digits + 2] \in WhiteSpace
        THEN digits + 2
        ELSE IF /\ Len(t) >= 3 /\ t[1] \in Letters
                /\ t[2] \in {".", ")"} /\ t[3] \in WhiteSpace
        THEN 3
        ELSE IF /\ Len(t) >= inner + 3 /\ t[1] = "(" /\ inner >= 1
                /\ t[inner + 2] = ")" /\ t[inner + 3] \in WhiteSpace
        THEN inner + 3
        ELSE 0

\* mutant of ClassifyLine: the ratio is taken of the line's own font size
ClassifyLineRaw(line, body) ==
    LET isHeading == /\ 100 * 2 * line.sizeNum >= 115 * body * line.sizeDen
                     /\ Len(line.text) <= 120
        type == IF isHeading THEN "heading"
                ELSE IF IsBulletText(line.text) THEN "bullet"
                ELSE IF OrderedPrefix(line.text) > 0 THEN "ordered"
                ELSE "paragraph"
        level == IF ~isHeading THEN 0
                 ELSE IF 10 * 2 * line.sizeNum >= 18 * body * line.sizeDen THEN 1
                 ELSE IF 10 * 2 * line.sizeNum >= 15 * body * line.sizeDen THEN 2
                 ELSE 3
    IN  [type |-> type, headingLevel |-> level, text |-> line.text,
         bold |-> line.bold, italic |-> line.italic, linkUrl |-> line.linkUrl,
         items |-> line.items]

\* Phase D: one classified line; ratio = roundedSize / bodySize, both in half
\* points; headingLevel 0 stands for undefined
ClassifyLine(line, body) ==
    LET roundedSize == RoundedSize(line)
        isHeading == 100 * roundedSize >= 115 * body /\ Len(line.text) <= 120
        type == IF isHeading THEN "heading"
                ELSE IF IsBulletText(line.text) THEN "bullet"
                ELSE IF OrderedPrefix(line.text) > 0 THEN "ordered"
                ELSE "paragraph"
        level == IF ~isHeading THEN 0
                 ELSE IF 10 * roundedSize >= 18 * body THEN 1
                 ELSE IF 10 * roundedSize >= 15 * body THEN 2
                 ELSE 3
    IN  [type |-> type, headingLevel |-> level, text |-> line.text,
         bold |-> line.bold, italic |-> line.italic, linkUrl |-> line.linkUrl,
         items |-> line.items]

ClassifyLines(lines, body) ==
    [k \in 1..Len(lines) |-> ClassifyLine(lines[k], body)]

----------------------------------------------------------------------------
(* buildPageHtml: markup                                                   *)

EscapeChar(c) ==
    IF c = "&" THEN <<"&", "a", "m", "p", ";">>
    ELSE IF c = "<" THEN <<"&", "l", "t", ";">>
    ELSE IF c = ">" THEN <<"&", "g", "t", ";">>
    ELSE IF c = "\"" THEN <<"&", "q", "u", "o", "t", ";">>
    ELSE <<c>>

\* escapeHtml
EscapeHtml(s) == Flatten([k \in 1..Len(s) |-> EscapeChar(s[k])])

\* <tag>inner</tag>
Element(tag, inner) ==
    <<"<">> \o tag \o <<">">> \o inner \o <<"<", "/">> \o tag \o <<">">>

\* formatInlineHtmlFromText
FormatInlineHtmlFromText(text, line) ==
    LET plain  == EscapeHtml(text)
        strong == IF line.bold
                  THEN Element(<<"s", "t", "r", "o", "n", "g">>, plain) ELSE plain
        em     == IF line.italic THEN Element(<<"e", "m">>, strong) ELSE strong
    IN  IF line.linkUrl # NoUrl
        THEN <<"<", "a", " ", "h", "r", "e", "f", "=", "\"">>
                 \o EscapeHtml(line.linkUrl) \o <<"\"", ">">> \o em
                 \o <<"<", "/", "a", ">">>
        ELSE em

\* formatInlineHtml
FormatInlineHtml(line) == FormatInlineHtmlFromText(line.text, line)

\* text.replace(/^[bullets]\s*/, "") of a bullet line
BulletText(t) == SubSeq(t, 2 + RunLength(t, 2, WhiteSpace), Len(t))

\* text.replace of the ordered prefix of an ordered line
OrderedText(t) == SubSeq(t, 1 + OrderedPrefix(t), Len(t))

\* index one past the run of lines of the given type that starts at i
RECURSIVE RunEnd(_, _, _)
RunEnd(cls, i, type) ==
    IF i <= Len(cls) /\ cls[i].type = type THEN RunEnd(cls, i + 1, type) ELSE i

HeadingTag(level) ==
    IF level = 1 THEN <<"h", "1">>
    ELSE IF level = 2 THEN <<"h", "2">>
    ELSE <<"h", "3">>

\* Phase E: htmlParts from classified line i on
RECURSIVE HtmlParts(_, _)
HtmlParts(cls, i) ==
    IF i > Len(cls) THEN <<>>
    ELSE IF cls[i].type = "heading"
    THEN <<Element(HeadingTag(cls[i].headingLevel), FormatInlineHtml(cls[i]))>>
         \o HtmlParts(cls, i + 1)
    ELSE IF cls[i].type = "bullet"
    THEN LET end == RunEnd(cls, i, "bullet")
         IN  << <<"<", "u", "l", ">">> >>
             \o [k \in 1..(end - i) |->
                    Element(<<"l", "i">>,
                        FormatInlineHtmlFromText(BulletText(cls[i + k - 1].text),
                                                 cls[i + k - 1]))]
             \o << <<"<", "/", "u", "l", ">">> >>
             \o HtmlParts(cls, end)
    ELSE IF cls[i].type = "ordered"
    THEN LET end == RunEnd(cls, i, "ordered")
         IN  << <<"<", "o", "l", ">">> >>
             \o [k \in 1..(end - i) |->
                    Element(<<"l", "i">>,
                        FormatInlineHtmlFromText(OrderedText(cls[i + k - 1].text),
                                                 cls[i + k - 1]))]
             \o << <<"<", "/", "o", "l", ">">> >>
             \o HtmlParts(cls, end)
    ELSE <<Element(<<"p">>, FormatInlineHtml(cls[i]))>> \o HtmlParts(cls, i + 1)

\* mutant of BuildPageHtml: a page without items gives an empty paragraph
BuildPageHtmlEmptyParagraph(items, styles, annotations, viewportHeight) ==
    LET enriched == Enrich(items, 1, styles, annotations, viewportHeight)
        lines    == GroupLines(enriched)
    IN  IF enriched = <<>> THEN Element(<<"p">>, <<>>)
        ELSE Join(HtmlParts(ClassifyLines(lines, BodySize(lines)), 1), NL)

\* buildPageHtml as a function of its arguments
BuildPageHtml(items, styles, annotations, viewportHeight) ==
    LET enriched == Enrich(items, 1, styles, annotations, viewportHeight)
        lines    == GroupLines(enriched)
    IN  IF enriched = <<>> THEN <<>>
        ELSE Join(HtmlParts(ClassifyLines(lines, BodySize(lines)), 1), NL)

----------------------------------------------------------------------------
(* The pages buildPageHtml is called with                                  *)

MaxLines == 3

ViewportHeight == 800

\* textContent.styles: fontName to fontFamily
Styles ==
    [f1 |-> "Helvetica", f2 |-> "Helvetica-Bold", f3 |-> "Times-Italic",
     f4 |-> "Times-BoldItalic"]

\* the link annotations of a page: a link over the band 40 <= x <= 80
Annotations == << [url |-> <<"u", "&">>, rect |-> <<40, 0, 80, ViewportHeight>>] >>

\* a run of n characters x
Run(n) == [i \in 1..n |-> "x"]

\* a text item of font size size at x; dy is its offset below the line's top
Item(str, size, x, dy, fontName) ==
    [hasStr |-> TRUE, str |-> str, a |-> size, d |-> size, e |-> x, f |-> 0 - dy,
     width |-> 20, fontName |-> fontName]

\* the text lines a page is made of
LineLayouts ==
    { <<Item(Run(130), 10, 0, 0, "f1")>>,
      <<Item(<<"a">>, 12, 0, 0, "f1")>>,
      <<Item(<<"a">>, 15, 0, 0, "f2")>>,
      <<Item(<<"a">>, 18, 0, 0, "f3")>>,
      <<Item(<<"a">>, 20, 0, 0, "f4")>>,
      <<Item(<<"a">>, 11, 0, 0, "f1"), Item(<<"a">>, 12, 100, 0, "f1")>>,
      <<Item(<<"a", "a", "a">>, 11, 0, 0, "f1"), Item(<<"a">>, 12, 100, 0, "f1")>>,
      <<Item(Run(120), 20, 0, 0, "f1")>>,
      <<Item(Run(121), 20, 0, 0, "f1")>>,
      <<Item(<<"-", " ", "a">>, 10, 0, 0, "f1")>>,
      <<Item(<<"1", ".", " ", "<">>, 10, 0, 0, "f1")>>,
      <<Item(<<" ">>, 10, 0, 0, "f1"),
        [Item(<<>>, 10, 0, 0, "f1") EXCEPT !.hasStr = FALSE]>>,
      <<[Item(<<"a">>, 0, 0, 0, "f9") EXCEPT !.d = -14]>>,
      <<Item(<<"b", " ">>, 10, 50, 3, "f2"), Item(<<"a">>, 10, 0, 0, "f2")>> }

\* the line an item of the page lies on (n = 0, 1, ...)
LineOf(item) == (ViewportHeight - item.f) \div 20

\* the extraction collaborator hands over the items of one more text line
AddLine(layout) ==
    /\ layPc = "input"
    /\ LET n == Cardinality({LineOf(pageItems[i]) : i \in 1..Len(pageItems)})
       IN  /\ n < MaxLines
           /\ pageItems' = pageItems \o [i \in 1..Len(layout) |->
                  [layout[i] EXCEPT !.f = ViewportHeight - TopOfLine(n) + @]]
    /\ UNCHANGED <<layPc, pageLines, bodySize, classified, html,
                   detVars, numVars, pdfVars, disVars>>

\* buildPageHtml, Phases A and B: enriched items, the empty page, lines
EnrichAndGroup ==
    /\ layPc = "input"
    /\ LET enriched == Enrich(pageItems, 1, Styles, Annotations, ViewportHeight)
       IN  IF enriched = <<>>
           THEN /\ html' = Str(<<>>)
                /\ layPc' = "done"
                /\ UNCHANGED pageLines
           ELSE /\ pageLines' = GroupLines(enriched)
                /\ layPc' = "lines"
                /\ UNCHANGED html
    /\ UNCHANGED <<pageItems, bodySize, classified, detVars, numVars, pdfVars, disVars>>

\* buildPageHtml, Phase C
FindBodySize ==
    /\ layPc = "lines"
    /\ bodySize' = BodySize(pageLines)
    /\ layPc' = "body"
    /\ UNCHANGED <<pageItems, pageLines, classified, html, detVars, numVars, pdfVars, disVars>>

\* buildPageHtml, Phase D
ClassifyPage ==
    /\ layPc = "body"
    /\ classified' = ClassifyLines(pageLines, bodySize)
    /\ layPc' = "classified"
    /\ UNCHANGED <<pageItems, pageLines, bodySize, html, detVars, numVars, pdfVars, disVars>>

\* buildPageHtml, Phase E
BuildHtml ==
    /\ layPc = "classified"
    /\ html' = Str(Join(HtmlParts(classified, 1), NL))
    /\ layPc' = "done"
    /\ UNCHANGED <<pageItems, pageLines, bodySize, classified, detVars, numVars, pdfVars, disVars>>

NextLayout ==
    \/ \E layout \in LineLayouts : AddLine(layout)
    \/ EnrichAndGroup
    \/ FindBodySize
    \/ ClassifyPage
    \/ BuildHtml

SpecLayout == Init /\ [][NextLayout]_vars

----------------------------------------------------------------------------
(* buildPageHtml on pages whose items are not in reading order             *)

\* a line of one item; a line followed by an item that lies back on the
\* line above; a line of two items whose tops differ by 2
ScatteredLayouts ==
    { <<Item(<<"a">>, 12, 0, 0, "f1")>>,
      <<Item(<<"a">>, 12, 0, 0, "f1"), Item(<<"b">>, 12, 100, -20, "f1")>>,
      <<Item(<<"a">>, 12, 0, 0, "f1"), Item(<<"b">>, 12, 100, 2, "f1")>> }

NextLines ==
    \/ \E layout \in ScatteredLayouts : AddLine(layout)
    \/ EnrichAndGroup
    \/ FindBodySize
    \/ ClassifyPage
    \/ BuildHtml

SpecLines == Init /\ [][NextLines]_vars

\* the lines of the page have been built
LinesBuilt == layPc # "input" /\ pageLines # <<>>

\* the non-blank items of the page, enriched
Enriched == Enrich(pageItems, 1, Styles, Annotations, ViewportHeight)

\* C28: buildPageHtml builds lines as the row grouper builds rows: two items
\* are in the same line exactly when their tops fall into the same bucket
\* round(top / 5) * 5, whatever the order of the items; every non-blank item
\* is in exactly one line.
C28_AsStated ==
    LinesBuilt =>
        /\ \A l1, l2 \in 1..Len(pageLines) :
               \A i1 \in 1..Len(pageLines[l1].items), i2 \in 1..Len(pageLines[l2].items) :
                   l1 = l2 <=> RowKey(pageLines[l1].items[i1], 5)
                                   = RowKey(pageLines[l2].items[i2], 5)
        /\ \A k \in 1..Len(Enriched) :
               Cardinality({l \in 1..Len(pageLines) :
                   \E i \in 1..Len(pageLines[l].items) :
                       pageLines[l].items[i] = Enriched[k]}) = 1

----------------------------------------------------------------------------
(* PdfConverter.convert                                                    *)

\* the positioned words built from the text items of a page
RECURSIVE PageWords(_, _, _)
PageWords(items, k, viewportHeight) ==
    IF k > Len(items) THEN <<>>
    ELSE (IF ~items[k].hasStr \/ Trim(items[k].str) = <<>>
          THEN <<>>
          ELSE << [text |-> Trim(items[k].str),
                   x0   |-> items[k].e,
                   x1   |-> items[k].e + items[k].width,
                   top  |-> viewportHeight - items[k].f] >>)
         \o PageWords(items, k + 1, viewportHeight)

\* detectTables(words, { pageWidth: viewport.width })
PageOptions(page) == [NoOptions EXCEPT !.pageWidth = page.width]

\* mutant of IsTruthy: null is taken for a table result too
IsTruthyAlways(r) == TRUE

\* if (tableResult): neither null nor the empty string
IsTruthy(r) == ~r.isNull /\ r.text # <<>>

\* what turndown may give for non-empty markup, normalised and trimmed
MarkdownSamples == {<<"a">>, <<".", "1">>, <<>>}

\* convertHtmlString(html).markdown: "" when the body is empty, else the
\* markdown that the turndown collaborator gives
MarkdownOf(pHtml) == IF pHtml = <<>> THEN {<<>>} ELSE MarkdownSamples

\* markdown.replace(/\n{3,}/g, "\n\n"): of a run of line feeds two are kept
CollapseNewlines(s) ==
    Flatten([n \in 1..Len(s) |->
        IF n >= 3 /\ s[n] = "\n" /\ s[n - 1] = "\n" /\ s[n - 2] = "\n"
        THEN <<>> ELSE <<s[n]>>])

\* chunks.join("\n\n")
JoinChunks(cs) == Join(cs, <<"\n", "\n">>)

\* the markdown convert returns for the chunks of the pages
PostProcess(cs) ==
    Trim(CollapseNewlines(MergeMasterFormatNumbering(JoinChunks(cs))))

MaxPages == 2

TableLine ==
    <<Item(<<"a">>, 10, 0, 0, "f1"), Item(<<"a">>, 10, 100, 0, "f1"),
      Item(<<"a">>, 10, 200, 0, "f1")>>

\* the items of a page made of the given text lines
PageItems(layouts) ==
    Flatten([n \in 1..Len(layouts) |->
        [i \in 1..Len(layouts[n]) |->
            [layouts[n][i] EXCEPT !.f = ViewportHeight - TopOfLine(n - 1) + @]]])

PageOf(layouts) ==
    [items |-> PageItems(layouts), width |-> PageWidth, height |-> ViewportHeight]

\* the pages of a document: a table, a paragraph, no items, blank items only,
\* a numbering fragment, a table under a paragraph
Pages ==
    { PageOf(<<TableLine, TableLine>>),
      PageOf(<< <<Item(<<"a">>, 10, 0, 0, "f1")>> >>),
      PageOf(<<>>),
      PageOf(<< <<Item(<<" ">>, 10, 0, 0, "f1"),
                  [Item(<<>>, 10, 0, 0, "f1") EXCEPT !.hasStr = FALSE]>> >>),
      PageOf(<< <<Item(<<".", "1">>, 10, 0, 0, "f1")>> >>),
      PageOf(<< <<Item(Run(61), 10, 0, 0, "f1")>>, TableLine, TableLine>>) }

Call(fn, page) == [fn |-> fn, page |-> page]

\* the document gets one more page
AddPage(page) ==
    /\ pdfPc = "input"
    /\ Len(doc) < MaxPages
    /\ doc' = Append(doc, page)
    /\ UNCHANGED <<pdfPc, pageNum, tableResult, pageHtml, chunks, calls, markdown,
                   detVars, numVars, layVars, disVars>>

\* convert, lines 167-172: the document is loaded, the page loop starts
OpenDocument ==
    /\ pdfPc = "input"
    /\ pdfPc' = "detect"
    /\ pageNum' = 1
    /\ chunks' = <<>>
    /\ UNCHANGED <<doc, tableResult, pageHtml, calls, markdown,
                   detVars, numVars, layVars, disVars>>

\* convert, lines 173-196: the words of the page, detectTables, a table chunk
DetectPage ==
    /\ pdfPc = "detect"
    /\ pageNum <= Len(doc)
    /\ LET page == doc[pageNum]
           r    == DetectTables(PageWords(page.items, 1, page.height),
                                PageOptions(page))
       IN  /\ tableResult' = r
           /\ calls' = Append(calls, Call("detectTables", pageNum))
           /\ IF IsTruthy(r)
              THEN /\ chunks' = Append(chunks, r.text)
                   /\ pageNum' = pageNum + 1
                   /\ UNCHANGED pdfPc
              ELSE /\ pdfPc' = "layout"
                   /\ UNCHANGED <<chunks, pageNum>>
    /\ UNCHANGED <<doc, pageHtml, markdown, detVars, numVars, layVars, disVars>>

\* convert, lines 197-204: the link annotations, buildPageHtml
LayoutPage ==
    /\ pdfPc = "layout"
    /\ pageHtml' = BuildPageHtml(doc[pageNum].items, Styles, Annotations,
                                 doc[pageNum].height)
    /\ calls' = Append(calls, Call("buildPageHtml", pageNum))
    /\ pdfPc' = "convert"
    /\ UNCHANGED <<doc, pageNum, tableResult, chunks, markdown,
                   detVars, numVars, layVars, disVars>>

\* convert, lines 205-206: convertHtmlString, a layout chunk
ConvertHtml(md) ==
    /\ pdfPc = "convert"
    /\ md \in MarkdownOf(pageHtml)
    /\ chunks' = Append(chunks, md)
    /\ calls' = Append(calls, Call("convertHtmlString", pageNum))
    /\ pageNum' = pageNum + 1
    /\ pdfPc' = "detect"
    /\ UNCHANGED <<doc, tableResult, pageHtml, markdown, detVars, numVars, layVars, disVars>>

\* convert, lines 210-220: join, numbering post-process, whitespace
Finish ==
    /\ pdfPc = "detect"
    /\ pageNum > Len(doc)
    /\ markdown' = Str(PostProcess(chunks))
    /\ calls' = Append(calls, Call("mergeMasterFormatNumbering", 0))
    /\ pdfPc' = "done"
    /\ UNCHANGED <<doc, pageNum, tableResult, pageHtml, chunks,
                   detVars, numVars, layVars, disVars>>

NextPdf ==
    \/ \E page \in Pages : AddPage(page)
    \/ OpenDocument
    \/ DetectPage
    \/ LayoutPage
    \/ \E md \in MarkdownSamples : ConvertHtml(md)
    \/ Finish

SpecPdf == Init /\ [][NextPdf]_vars

----------------------------------------------------------------------------
(* Properties of buildPageHtml                                             *)

\* the lines of the page have been classified
LinesClassified == layPc \in {"classified", "done"}

\* the heading rule for a classified line c at ratio num / den
HeadingRule(c, num, den) ==
    /\ c.type = "heading" <=> (100 * num >= 115 * den /\ Len(c.text) <= 120)
    /\ c.type = "heading" =>
           c.headingLevel = IF 10 * num >= 18 * den THEN 1
                            ELSE IF 10 * num >= 15 * den THEN 2
                            ELSE 3

\* the half points nearest to the line's font size, a tie going up
NearestHalf(line) ==
    CHOOSE h \in 0..(2 * line.sizeNum + 1) :
        /\ (2 * h - 1) * line.sizeDen <= 4 * line.sizeNum
        /\ 4 * line.sizeNum < (2 * h + 1) * line.sizeDen

\* C9 as stated: a line is a heading exactly when its font size over the body
\* font size is at least 1.15 and its text has at most 120 characters; level 1
\* from ratio 1.8, level 2 from 1.5, else level 3.
C9_AsStated ==
    LinesClassified =>
        \A k \in 1..Len(pageLines) :
            HeadingRule(classified[k], 2 * pageLines[k].sizeNum,
                        pageLines[k].sizeDen * bodySize)

\* C9 amended: the ratio is the line's font size rounded to the nearest 0.5,
\* over the body font size.  A line is a heading exactly when that ratio is at
\* least 1.15 and its text has at most 120 characters; level 1 from 1.8, level
\* 2 from 1.5, else 3; at ratio 2.0 level 1, at 1.2 level 3, at 1.0 no heading.
C9_Headings ==
    LinesClassified =>
        \A k \in 1..Len(pageLines) :
            LET c == classified[k]
                h == NearestHalf(pageLines[k])
            IN  /\ HeadingRule(c, h, bodySize)
                /\ (h = 2 * bodySize /\ Len(c.text) <= 120)
                       => (c.type = "heading" /\ c.headingLevel = 1)
                /\ (10 * h = 12 * bodySize /\ Len(c.text) <= 120)
                       => (c.type = "heading" /\ c.headingLevel = 3)
                /\ h = bodySize => c.type # "heading"

\* a heading whose own font size is below 1.15 of the body size, next to a line
\* of more than 120 characters at twice the body size that is no heading
C9_Witness ==
    /\ layPc = "done"
    /\ \E k \in 1..Len(pageLines) :
           /\ classified[k].type = "heading"
           /\ 100 * 2 * pageLines[k].sizeNum < 115 * pageLines[k].sizeDen * bodySize
    /\ \E k \in 1..Len(pageLines) :
           /\ classified[k].type # "heading"
           /\ NearestHalf(pageLines[k]) = 2 * bodySize
           /\ Len(classified[k].text) > 120

\* the body font size of the page has been determined
BodySizeFound == layPc \in {"body", "classified", "done"} /\ pageLines # <<>>

\* h half points is the line's font size rounded to the nearest 0.5, a tie
\* going up
InBucket(line, h) ==
    /\ (2 * h - 1) * line.sizeDen <= 4 * line.sizeNum
    /\ 4 * line.sizeNum < (2 * h + 1) * line.sizeDen

\* the bucket of a line, in half points
Bucket(line) == (4 * line.sizeNum + line.sizeDen) \div (2 * line.sizeDen)

\* the characters of the lines of the bucket of h half points
BucketChars(h) ==
    LET RECURSIVE Sum(_)
        Sum(n) == IF n = 0 THEN 0
                  ELSE Sum(n - 1) + (IF InBucket(pageLines[n], h)
                                     THEN Len(pageLines[n].text) ELSE 0)
    IN  Sum(Len(pageLines))

\* C29: the body font size is a font-size bucket of the page (the size of a
\* line rounded to the nearest 0.5) and no other bucket has a strictly
\* greater total character count.
C29_BodySize ==
    BodySizeFound =>
        /\ \A n \in 1..Len(pageLines) : InBucket(pageLines[n], Bucket(pageLines[n]))
        /\ \E n \in 1..Len(pageLines) : Bucket(pageLines[n]) = bodySize
        /\ LET most == BucketChars(bodySize)
           IN  \A n \in 1..Len(pageLines) : BucketChars(Bucket(pageLines[n])) <= most

\* two buckets: the body size is not the size of the first line nor the
\* size most lines have, and its bucket has strictly more characters
C29_Witness ==
    /\ layPc = "body"
    /\ Len(pageLines) = 3
    /\ Bucket(pageLines[1]) # bodySize
    /\ Bucket(pageLines[2]) = Bucket(pageLines[1])
    /\ Bucket(pageLines[3]) = bodySize
    /\ BucketChars(bodySize) > BucketChars(Bucket(pageLines[1]))

----------------------------------------------------------------------------
(* Properties of PdfConverter.convert                                      *)

\* the page has no words
NoWords(page) == PageWords(page.items, 1, page.height) = <<>>

\* what detectTables gives for page p of the document
TableOf(p) ==
    DetectTables(PageWords(doc[p].items, 1, doc[p].height), PageOptions(doc[p]))

\* the positions in calls of the calls of fn for page p
CallsOf(fn, p) == {i \in 1..Len(calls) : calls[i] = Call(fn, p)}

\* C6: for a page with no words detectTables returns null and buildPageHtml
\* returns the empty string; the page's chunk is empty.
C6_EmptyPage ==
    /\ (pdfPc \in {"layout", "convert"} /\ NoWords(doc[pageNum]))
           => tableResult.isNull
    /\ (pdfPc = "convert" /\ NoWords(doc[pageNum])) => pageHtml = <<>>
    /\ \A p \in 1..Len(chunks) : NoWords(doc[p]) => chunks[p] = <<>>

\* buildPageHtml has returned for a page whose items are all blank or without
\* str, after a page without any item
C6_Witness ==
    /\ pdfPc = "convert"
    /\ NoWords(doc[pageNum])
    /\ doc[pageNum].items # <<>>
    /\ pageNum = 2
    /\ doc[1].items = <<>>

\* C10: pages are processed in page order; every page gets exactly one chunk,
\* the table markup if detectTables returned non-null, else the markup of the
\* layout classifier, which is called only after detectTables returned null;
\* the chunks are joined in page order and the numbering post-processor runs
\* exactly once, after the last page.
C10_PipelineOrder ==
    /\ \A i \in 1..Len(calls) : \A j \in (i + 1)..Len(calls) :
           (calls[i].fn = "detectTables" /\ calls[j].fn = "detectTables")
               => calls[j].page > calls[i].page
    /\ \A p \in 1..Len(doc) :
           Cardinality(CallsOf("detectTables", p))
               = IF p < pageNum \/ (p = pageNum /\ pdfPc \in {"layout", "convert"})
                 THEN 1 ELSE 0
    /\ pdfPc # "input" =>
           Len(chunks) = IF pdfPc = "done" THEN Len(doc) ELSE pageNum - 1
    /\ \A p \in 1..Len(chunks) :
           IF ~TableOf(p).isNull
           THEN /\ chunks[p] = TableOf(p).text
                /\ CallsOf("buildPageHtml", p) = {}
           ELSE /\ chunks[p] \in MarkdownOf(BuildPageHtml(doc[p].items, Styles,
                                     Annotations, doc[p].height))
                /\ Cardinality(CallsOf("buildPageHtml", p)) = 1
    /\ \A i \in 1..Len(calls) :
           calls[i].fn = "buildPageHtml" =>
               /\ TableOf(calls[i].page).isNull
               /\ i > 1
               /\ calls[i - 1] = Call("detectTables", calls[i].page)
    /\ Cardinality(CallsOf("mergeMasterFormatNumbering", 0))
           = IF pdfPc = "done" THEN 1 ELSE 0
    /\ pdfPc = "done" =>
           /\ calls[Len(calls)].fn = "mergeMasterFormatNumbering"
           /\ \A p \in 1..Len(doc) : CallsOf("detectTables", p) # {}
           /\ markdown.text
                  = Trim(CollapseNewlines(
                        MergeMasterFormatNumbering(Join(chunks, <<"\n", "\n">>))))

\* a document of a table page and a layout page, converted: the fragment of
\* the second page's chunk is not merged into the table
C10_Witness ==
    /\ pdfPc = "done"
    /\ Len(doc) = 2
    /\ ~TableOf(1).isNull
    /\ TableOf(2).isNull
    /\ CallsOf("buildPageHtml", 2) # {}
    /\ chunks[2] # <<>>

----------------------------------------------------------------------------
(* Mdize: the converter registry and convertBuffer                         *)

\* mutant of SortByPriority: entries of equal priority end up in reverse order
RECURSIVE SortByPriorityReversed(_)
SortByPriorityReversed(regs) ==
    IF regs = <<>> THEN <<>>
    ELSE LET init == SortByPriorityReversed(SubSeq(regs, 1, Len(regs) - 1))
             e    == regs[Len(regs)]
             k    == Cardinality({i \in 1..Len(init) : init[i].priority < e.priority})
         IN  SubSeq(init, 1, k) \o <<e>> \o SubSeq(init, k + 1, Len(init))

\* [...regs].sort((a, b) => a.priority - b.priority): stable
RECURSIVE SortByPriority(_)
SortByPriority(regs) ==
    IF regs = <<>> THEN <<>>
    ELSE LET init == SortByPriority(SubSeq(regs, 1, Len(regs) - 1))
             e    == regs[Len(regs)]
             k    == Cardinality({i \in 1..Len(init) : init[i].priority <= e.priority})
         IN  SubSeq(init, 1, k) \o <<e>> \o SubSeq(init, k + 1, Len(init))

\* mutant of Thrown: the failed attempts are forgotten
ThrownUnsupported(atts) ==
    [kind |-> "UnsupportedFormatError", by |-> "", attempts |-> <<>>]

\* what convertBuffer throws after the loop
Thrown(atts) ==
    IF Len(atts) > 0
    THEN [kind |-> "FileConversionError", by |-> "", attempts |-> atts]
    ELSE [kind |-> "UnsupportedFormatError", by |-> "", attempts |-> <<>>]

MaxRegistrations == 2

\* how many converters accept one buffer, at most
MaxAccepting == 3

\* converters of the caller's own
CustomConverters == {"CustomA", "CustomB"}

Priorities == {-1, PRIORITY_SPECIFIC, PRIORITY_GENERIC}

\* the buffers convertBuffer is called with: which converters accept the
\* buffer (with its resolved stream info) and which of them throw on it
Inputs ==
    LET names == {"XmlRssConverter", "HtmlConverter", "PlainTextConverter"}
                     \cup CustomConverters
    IN  UNION {{[accepts |-> a, throws |-> t] : t \in SUBSET a} :
                  a \in {x \in SUBSET names : Cardinality(x) <= MaxAccepting}}

\* new Mdize(options): with the built-ins or without
InitDispatch ==
    /\ DetIdle /\ NumIdle /\ LayIdle /\ PdfIdle
    /\ \/ DisIdleOn(RegisterBuiltins)
       \/ DisIdleOn(<<>>)

\* register(converter, priority) by the caller
Register(converter, priority) ==
    /\ disPc = "idle"
    /\ Cardinality({i \in 1..Len(registrations) :
           registrations[i].converter \in CustomConverters}) < MaxRegistrations
    /\ registrations' = Registered(registrations, converter, priority)
    /\ UNCHANGED <<disPc, input, sortedRegs, pos, attempts, invoked, outcome,
                   detVars, numVars, layVars, pdfVars>>

\* convertBuffer, lines 80-86: stream info resolved, registrations sorted
ConvertBuffer(buffer) ==
    /\ disPc = "idle"
    /\ input' = buffer
    /\ sortedRegs' = SortByPriority(registrations)
    /\ attempts' = <<>>
    /\ pos' = 1
    /\ disPc' = "loop"
    /\ UNCHANGED <<registrations, invoked, outcome,
                   detVars, numVars, layVars, pdfVars>>

\* convertBuffer, lines 88-99: one iteration of the loop over sorted
TryConverter ==
    /\ disPc = "loop"
    /\ pos <= Len(sortedRegs)
    /\ LET converter == sortedRegs[pos].converter
       IN  IF converter \notin input.accepts
           THEN /\ pos' = pos + 1
                /\ UNCHANGED <<disPc, attempts, invoked, outcome>>
           ELSE /\ invoked' = Append(invoked, converter)
                /\ IF converter \in input.throws
                   THEN /\ attempts' = Append(attempts, converter)
                        /\ pos' = pos + 1
                        /\ UNCHANGED <<disPc, outcome>>
                   ELSE /\ outcome' = [kind |-> "result", by |-> converter,
                                       attempts |-> <<>>]
                        /\ disPc' = "done"
                        /\ UNCHANGED <<pos, attempts>>
    /\ UNCHANGED <<registrations, input, sortedRegs,
                   detVars, numVars, layVars, pdfVars>>

\* convertBuffer, lines 101-110: no converter returned
ThrowError ==
    /\ disPc = "loop"
    /\ pos > Len(sortedRegs)
    /\ outcome' = Thrown(attempts)
    /\ disPc' = "done"
    /\ UNCHANGED <<registrations, input, sortedRegs, pos, attempts, invoked,
                   detVars, numVars, layVars, pdfVars>>

NextDispatch ==
    \/ \E converter \in CustomConverters, priority \in Priorities :
           Register(converter, priority)
    \/ \E buffer \in Inputs : ConvertBuffer(buffer)
    \/ TryConverter
    \/ ThrowError

SpecDispatch == InitDispatch /\ [][NextDispatch]_vars

----------------------------------------------------------------------------
(* Properties of convertBuffer                                             *)

\* registration i accepts the buffer / its convert throws on the buffer
Accepting(i) == registrations[i].converter \in input.accepts

Throwing(i) == registrations[i].converter \in input.throws

\* registration i is consulted before registration j: lower priority value
\* first, registration order among equal priorities
Before(i, j) ==
    \/ registrations[i].priority < registrations[j].priority
    \/ registrations[i].priority = registrations[j].priority /\ i < j

Registrations == 1..Len(registrations)

\* the place of accepting registration i among the accepting ones
Rank(i) == Cardinality({j \in Registrations : Accepting(j) /\ Before(j, i)}) + 1

\* the accepting converters, in the order they are consulted
AcceptingInOrder ==
    [k \in 1..Cardinality({i \in Registrations : Accepting(i)}) |->
        registrations[CHOOSE i \in Registrations : Accepting(i) /\ Rank(i) = k].converter]

\* every accepting converter consulted before registration i throws
AllBeforeThrow(i) ==
    \A j \in Registrations : (Accepting(j) /\ Before(j, i)) => Throwing(j)

\* C13: convertBuffer fails with UnsupportedFormatError exactly when no
\* registered converter accepts the input, and with FileConversionError
\* exactly when some converter accepts and every accepting converter throws;
\* attempts then holds one entry per accepting converter in the order tried.
\* A throwing converter does not end the dispatch: every accepting converter
\* whose predecessors all threw has been called.
C13_ErrorSignals ==
    disPc = "done" =>
        /\ outcome.kind \in {"result", "UnsupportedFormatError", "FileConversionError"}
        /\ outcome.kind = "UnsupportedFormatError"
               <=> \A i \in Registrations : ~Accepting(i)
        /\ outcome.kind = "FileConversionError"
               <=> /\ \E i \in Registrations : Accepting(i)
                   /\ \A i \in Registrations : Accepting(i) => Throwing(i)
        /\ outcome.kind = "FileConversionError"
               => outcome.attempts = AcceptingInOrder
        /\ \A i \in Registrations :
               (Accepting(i) /\ AllBeforeThrow(i))
                   => /\ Len(invoked) >= Rank(i)
                      /\ invoked[Rank(i)] = registrations[i].converter

\* FileConversionError after two accepting converters threw
C13_Witness ==
    /\ disPc = "done"
    /\ outcome.kind = "FileConversionError"
    /\ Len(outcome.attempts) >= 2

\* the first registration, in consulting order, that accepts and succeeds
IsProducer(i) == Accepting(i) /\ ~Throwing(i) /\ AllBeforeThrow(i)

\* C14: converters are consulted in ascending priority value, registration
\* order among equals; the result is that of the first converter in that
\* order that accepts and succeeds, and none is called after it.  So
\* PlainTextConverter produces the result only if every accepting converter
\* of lower priority value failed, and a sole custom converter produces the
\* result for an input it accepts.  convertBuffer leaves the registration
\* list as it is.
C14_DispatchOrder ==
    /\ [](disPc = "done" =>
            /\ outcome.kind = "result"
                   <=> \E i \in Registrations : IsProducer(i)
            /\ \A i \in Registrations :
                   IsProducer(i) =>
                       /\ outcome.by = registrations[i].converter
                       /\ invoked = SubSeq(AcceptingInOrder, 1, Rank(i))
            /\ outcome.by = "PlainTextConverter" =>
                   \A i \in Registrations :
                       (registrations[i].priority < PRIORITY_GENERIC /\ Accepting(i))
                           => Throwing(i)
            /\ (Len(registrations) = 1 /\ Accepting(1) /\ ~Throwing(1)) =>
                   (outcome.kind = "result" /\ outcome.by = registrations[1].converter))
    /\ [][registrations' # registrations => (disPc = "idle" /\ disPc' = "idle")]_vars

\* PlainTextConverter produced the result after a built-in and a custom
\* converter of the same priority failed in registration order
C14_Witness ==
    /\ disPc = "done"
    /\ outcome.kind = "result"
    /\ outcome.by = "PlainTextConverter"
    /\ attempts = <<"HtmlConverter", "CustomA">>

====
